---------------------------- MODULE Spec2Model ----------------------------
(***************************************************************************)
(* A model of fbneo_libretro.py: the catalog engine (load_rom_titles,      *)
(* parse_dat_metadata, get_rom_list_cached), the filter pipeline           *)
(* (filter_rom_list, MainWindow.update_rom_list) and the handlers that     *)
(* drive them.                                                             *)
(*                                                                         *)
(* Python strings are sequences of one-character strings, so that          *)
(* str.lower, str.strip, str.split, the `in` operator, the ordering of     *)
(* sorted() and Path.stem are computed on the characters.                  *)
(***************************************************************************)
EXTENDS Integers, Sequences, FiniteSets, TLC

(***************************************************************************)
(* Characters: the ASCII digits and letters, each sequence in code-point   *)
(* order, and the punctuation and white space the file names, the title    *)
(* table and the metadata of the model use.                                *)
(***************************************************************************)
Digits ==
  << "0", "1", "2", "3", "4", "5", "6", "7", "8", "9" >>

UpperCase ==
  << "A", "B", "C", "D", "E", "F", "G", "H", "I", "J", "K", "L", "M",
     "N", "O", "P", "Q", "R", "S", "T", "U", "V", "W", "X", "Y", "Z" >>

LowerCase ==
  << "a", "b", "c", "d", "e", "f", "g", "h", "i", "j", "k", "l", "m",
     "n", "o", "p", "q", "r", "s", "t", "u", "v", "w", "x", "y", "z" >>

\* Code points of the other characters.
Punctuation ==
  [ c \in { "\t", "\n", " ", "\"", "'", "-", ".", "/", "_" } |->
      CASE c = "\t" -> 9
        [] c = "\n" -> 10
        [] c = " "  -> 32
        [] c = "\"" -> 34
        [] c = "'"  -> 39
        [] c = "-"  -> 45
        [] c = "."  -> 46
        [] c = "/"  -> 47
        [] c = "_"  -> 95 ]

CharSet ==
  { Digits[i] : i \in 1..Len(Digits) } \cup { UpperCase[i] : i \in 1..Len(UpperCase) }
    \cup { LowerCase[i] : i \in 1..Len(LowerCase) } \cup DOMAIN Punctuation

\* ord(c): the code point of a character ("0" is 48, "A" is 65, "a" is 97).
Ord ==
  [ c \in CharSet |->
      IF c \in DOMAIN Punctuation THEN Punctuation[c]
      ELSE IF \E i \in 1..Len(Digits) : Digits[i] = c
           THEN 47 + (CHOOSE i \in 1..Len(Digits) : Digits[i] = c)
      ELSE IF \E i \in 1..Len(UpperCase) : UpperCase[i] = c
           THEN 64 + (CHOOSE i \in 1..Len(UpperCase) : UpperCase[i] = c)
      ELSE 96 + (CHOOSE i \in 1..Len(LowerCase) : LowerCase[i] = c) ]

\* The lower-case letter of an upper-case letter (its code point plus 32, the
\* letter at the same place of LowerCase); every other character is its own.
LowerChar ==
  [ c \in CharSet |->
      IF \E i \in 1..Len(UpperCase) : UpperCase[i] = c
      THEN LowerCase[CHOOSE i \in 1..Len(UpperCase) : UpperCase[i] = c]
      ELSE c ]

\* str.lower()
Lower(s) ==
  [ i \in 1..Len(s) |-> LowerChar[s[i]] ]

\* The characters str.strip() and str.split() treat as white space.
WhiteSpace ==
  { " ", "\t", "\n" }

IsSpace(c) ==
  c \in WhiteSpace

\* s[i:], with i counted from 1.
Drop(s, i) ==
  IF i > Len(s) THEN << >> ELSE SubSeq(s, i, Len(s))

\* The index of the first character of s, at or after i, that is not in `chars`
\* (Len(s) + 1 when there is none).
RECURSIVE SkipChars(_, _, _)
SkipChars(s, i, chars) ==
  IF i > Len(s) THEN i
  ELSE IF s[i] \in chars THEN SkipChars(s, i + 1, chars)
  ELSE i

\* The index of the last character of s, at or before i, that is not in `chars`
\* (0 when there is none).
RECURSIVE SkipCharsBack(_, _, _)
SkipCharsBack(s, i, chars) ==
  IF i < 1 THEN 0
  ELSE IF s[i] \in chars THEN SkipCharsBack(s, i - 1, chars)
  ELSE i

\* str.strip(chars): s without its leading and trailing characters of `chars`.
StripChars(s, chars) ==
  LET a == SkipChars(s, 1, chars)
      b == SkipCharsBack(s, Len(s), chars)
  IN  IF a > b THEN << >> ELSE SubSeq(s, a, b)

\* str.strip()
Strip(s) ==
  StripChars(s, WhiteSpace)

\* The index of the first white-space character of s at or after i (Len(s) + 1
\* when there is none).
RECURSIVE FindSpace(_, _)
FindSpace(s, i) ==
  IF i > Len(s) THEN i
  ELSE IF IsSpace(s[i]) THEN i
  ELSE FindSpace(s, i + 1)

\* str.split(maxsplit=1): the first white-space delimited word and, when
\* something follows the white space after it, the rest of the string.
SplitMax1(s) ==
  LET a == SkipChars(s, 1, WhiteSpace)
      b == FindSpace(s, a)
      c == SkipChars(s, b, WhiteSpace)
  IN  IF a > Len(s) THEN << >>
      ELSE IF c > Len(s) THEN << SubSeq(s, a, b - 1) >>
      ELSE << SubSeq(s, a, b - 1), Drop(s, c) >>

\* str.endswith(suffix)
EndsWith(s, suffix) ==
  /\ Len(suffix) <= Len(s)
  /\ SubSeq(s, Len(s) - Len(suffix) + 1, Len(s)) = suffix

\* sub in s: sub occurs in s as a contiguous substring.
Contains(sub, s) ==
  \E i \in 1..(Len(s) - Len(sub) + 1) : SubSeq(s, i, i + Len(sub) - 1) = sub

\* s <= t in Python's ordering of str: lexicographic by code point.
RECURSIVE StrLeq(_, _)
StrLeq(s, t) ==
  IF s = << >> THEN TRUE
  ELSE IF t = << >> THEN FALSE
  ELSE IF Head(s) = Head(t) THEN StrLeq(Tail(s), Tail(t))
  ELSE Ord[Head(s)] < Ord[Head(t)]

\* The index of the last occurrence of c in s at or before i (0 when none):
\* str.rfind.
RECURSIVE RFind(_, _, _)
RFind(s, c, i) ==
  IF i < 1 THEN 0
  ELSE IF s[i] = c THEN i
  ELSE RFind(s, c, i - 1)

\* PurePath.name: the last component of a relative path.
PathName(p) ==
  Drop(p, RFind(p, "/", Len(p)) + 1)

\* PurePath.stem: the name without its suffix; the suffix starts at the last
\* dot of the name, unless that dot is the first or the last character.
PathStem(p) ==
  LET name == PathName(p)
      dot  == RFind(name, ".", Len(name))
  IN  IF dot > 1 /\ dot < Len(name) THEN SubSeq(name, 1, dot - 1) ELSE name


(***************************************************************************)
(* The program's tables.                                                   *)
(***************************************************************************)
\* TAB_CONFIGS: a standard system and the multi-file disc system (two of
\* the seventeen entries; every other entry behaves as "Arcade" does).
Systems ==
  { "Arcade", "SNK Neo-Geo CD" }

\* TAB_CONFIGS[...]["rom_titles_file"]
rom_titles_file_of ==
  [ s \in Systems |->
      IF s = "Arcade" THEN "rom_titles_arcade.txt" ELSE "rom_titles_neocd.txt" ]

TitleFiles ==
  { rom_titles_file_of[s] : s \in Systems }

ROM_HIDE_LIST ==
  { <<"n","e","o","c","d","z">>,
    <<"r","o","m","_","t","o","_","h","i","d","e","2">> }

\* The extensions of a candidate file of a standard system, and of the disc
\* system.
RomExtensions ==
  { <<".","z","i","p">>, <<".","7","z">>, <<".","c","u","e">> }

CueExtension ==
  <<".","c","u","e">>

\* The placeholder titles load_rom_titles discards.
PlaceholderTitles ==
  { <<"u","n","t","i","t","l","e","d">>, <<"u","n","k","n","o","w","n">>,
    <<"n","o"," ","t","i","t","l","e">> }

(***************************************************************************)
(* The file system the program reads: one ROM directory, one metadata      *)
(* (XML/DAT) file and the title table of each system.  What is on disk is  *)
(* drawn from the documents below.                                         *)
(***************************************************************************)
RomsPath ==
  "/roms"

DatPath ==
  "/fbneo.dat"

\* The directory entries that may be in the ROM directory.
sf2ce_zip ==
  <<"S","F","2","C","E",".","Z","I","P">>

kof_cue ==
  <<"k","o","f",".","c","u","e">>

neogeo_cue ==
  <<"n","e","o","g","e","o",".","c","u","e">>

neocdz_7z ==
  <<"N","e","o","C","D","Z",".","7","z">>

readme_txt ==
  <<"r","e","a","d","m","e",".","t","x","t">>

cd_dir ==
  <<"c","d">>

EntryNames ==
  { sf2ce_zip, kof_cue, neogeo_cue, neocdz_7z, readme_txt, cd_dir }

\* The entries that are sub-directories, with the files in each, in the order
\* the file system enumerates them.
SubDirFiles ==
  [ d \in { cd_dir } |->
      << <<"N","E","O","C","D","Z",".","C","U","E">>,
         <<"m","s","l","u","g",".","c","u","e">> >> ]

\* The metadata documents: the elements of the document in document order,
\* each with its tag, its attributes and the text of its child elements.
DatDocuments ==
  [ d \in { "full", "biosonly" } |->
      IF d = "full"
      THEN << [ tag |-> "header", attrib |-> [ name |-> <<"F","B","N">> ],
                children |-> [ description |-> <<"d","a","t">> ] ],
              [ tag |-> "machine", attrib |-> [ romname |-> <<"m","s","l","u","g">> ],
                children |-> [ year |-> <<"1","9","9","6">> ] ],
              [ tag |-> "game",
                attrib |-> [ name |-> <<"s","f","2","c","e">>, cloneof |-> <<"s","f","2">> ],
                children |-> [ description |-> <<"a">>, year |-> <<"1","9","9","2">>,
                               manufacturer |-> <<"C","a","p","c","o","m">> ] ],
              [ tag |-> "game", attrib |-> [ name |-> <<"K","O","F">> ],
                children |-> [ description |-> <<" ","B"," ">>, year |-> <<"1","9","9","4">>,
                               manufacturer |-> <<"S","N","K">> ] ],
              [ tag |-> "game",
                attrib |-> [ name |-> <<"n","e","o","g","e","o">>, isbios |-> <<"y","e","s">> ],
                children |-> [ description |-> <<"N","e","o">> ] ],
              [ tag |-> "game", attrib |-> [ isbios |-> <<"n","o">> ],
                children |-> [ description |-> <<"x">> ] ] >>
      ELSE << [ tag |-> "game",
                attrib |-> [ name |-> <<"n","e","o","g","e","o">>, isbios |-> <<"y","e","s">> ],
                children |-> [ description |-> <<"N","e","o">> ] ] >> ]

\* The states of the metadata file: absent, present but not readable, present
\* but not well-formed XML, or one of the documents.
DatStates ==
  { "missing", "unreadable", "malformed" } \cup DOMAIN DatDocuments

\* The title tables: the lines of the file.
TitleDocuments ==
  [ d \in { "table" } |->
      << <<"k","o","f"," ","\"","b","\"","\n">>,
         <<"N","E","O","G","E","O"," "," ","B","\n">>,
         <<"m","s","l","u","g"," ","\"","U","n","k","n","o","w","n","\"","\n">>,
         <<"j","u","n","k","\n">>,
         <<"\n">> >> ]

\* The states of a title table: absent, present but not readable (no
\* permission, or not UTF-8), or one of the documents.
TitleStates ==
  { "missing", "unreadable" } \cup DOMAIN TitleDocuments

\* The states of the ROM directory path: absent, a regular file, a directory
\* without read permission, or a readable directory.
DirKinds ==
  { "missing", "file", "noperm", "dir" }


(***************************************************************************)
(* State.                                                                  *)
(***************************************************************************)
VARIABLES
  fs,              \* the disk: [dir: [kind, entries], dat, titles]
  cfg,             \* self.cfg: roms_dirs and xml_dat_files, per system
  systems_combo,   \* the system selected in self.systems_combo
  search_edit,     \* the text of self.search_edit
  year_edit,       \* the text of self.year_edit
  manuf_edit,      \* the text of self.manuf_edit
  hide_clones_chk, \* self.hide_clones_chk.isChecked()
  rom_cache,       \* self.rom_cache
  roms,            \* self.roms
  last,            \* the calls of the last handler: those of get_rom_list_cached
                   \* and that of filter_rom_list
  pc,              \* "running", or "aborted" once an exception left a handler
  steps,           \* the steps taken so far in the session model
  now,             \* time.time() * 1000, counted from the start of the model
  joystick,        \* the device of pygame.joystick.Joystick(0), or none
  joystick_config, \* self.cfg["joystick_config"], its times in milliseconds
  favorites,       \* self.cfg["favorites"]
  win,             \* MainWindow: the current row of roms_list and the last_* dicts
  favorites_dialog,\* self.favorites_dialog: none, or the open FavoritesDialog
  pending,         \* the poll_joystick of MainWindow that waits in show_favorites
  polled           \* what the last poll_joystick did

vars ==
  << fs, cfg, systems_combo, search_edit, year_edit, manuf_edit, hide_clones_chk,
     rom_cache, roms, last, pc, steps, now, joystick, joystick_config, favorites, win,
     favorites_dialog, pending, polled >>

\* The clock, the device and the state of the favorites view.
padVars ==
  << now, joystick, joystick_config, favorites, favorites_dialog, pending, polled >>

\* An empty dict.
EmptyDict ==
  [ k \in {} |-> k ]

\* d[k] = v
DictPut(d, k, v) ==
  [ x \in DOMAIN d \cup { k } |-> IF x = k THEN v ELSE d[x] ]

\* d.get(k, default)
DictGet(d, k, default) ==
  IF k \in DOMAIN d THEN d[k] ELSE default

\* A Python tuple and a Python list of the items given.
PyTuple(items) ==
  [ type |-> "tuple", items |-> items ]

PyList(items) ==
  [ type |-> "list", items |-> items ]

\* a == b for two sequences of Python: a tuple and a list are never equal.
PyEq(a, b) ==
  a.type = b.type /\ a.items = b.items

\* x in seq
PyIn(x, seq) ==
  \E i \in 1..Len(seq) : PyEq(x, seq[i])

\* json.dump of a list of tuples or lists of strings: an array of arrays.
json_dump(seq) ==
  [ i \in 1..Len(seq) |-> [ array |-> seq[i].items ] ]

\* json.load of an array of arrays: a list of lists.
json_load(text) ==
  [ i \in 1..Len(text) |-> PyList(text[i].array) ]

\* os.path.exists(path)
PathExists(path) ==
  \/ path = RomsPath /\ fs.dir.kind # "missing"
  \/ path = DatPath /\ fs.dat # "missing"
  \/ path \in TitleFiles /\ fs.titles[path] # "missing"

(***************************************************************************)
(* load_rom_titles                                                         *)
(***************************************************************************)
\* The loop over the lines of the file: rom_titles after the lines from i on.
RECURSIVE TitleLines(_, _, _)
TitleLines(lines, i, rom_titles) ==
  IF i > Len(lines) THEN rom_titles
  ELSE
    LET parts == SplitMax1(Strip(lines[i]))
        key   == Lower(parts[1])
        title == StripChars(parts[2], { "\"" })
    IN  IF Len(parts) >= 2
        THEN IF title = << >> \/ Lower(title) \in PlaceholderTitles
             THEN TitleLines(lines, i + 1, rom_titles)
             ELSE TitleLines(lines, i + 1, DictPut(rom_titles, key, title))
        ELSE TitleLines(lines, i + 1, rom_titles)

\* The index each title document parses to.
TitleIndex ==
  [ d \in DOMAIN TitleDocuments |-> TitleLines(TitleDocuments[d], 1, EmptyDict) ]

\* load_rom_titles(filename): [raised, value].  open() of a file that exists
\* and cannot be read, or decoded, raises: nothing in the function catches it.
load_rom_titles(filename) ==
  IF ~PathExists(filename) THEN [ raised |-> FALSE, value |-> EmptyDict ]
  ELSE IF fs.titles[filename] = "unreadable" THEN [ raised |-> TRUE, value |-> EmptyDict ]
  ELSE [ raised |-> FALSE, value |-> TitleIndex[fs.titles[filename]] ]

(***************************************************************************)
(* parse_dat_metadata                                                      *)
(***************************************************************************)
\* node.text.strip() if node is not None and node.text else default
ChildText(entry, tag, default) ==
  IF tag \in DOMAIN entry.children /\ entry.children[tag] # << >>
  THEN Strip(entry.children[tag])
  ELSE default

\* entry.attrib.get("isbios", "no") == "yes"
IsBiosEntry(entry) ==
  DictGet(entry.attrib, "isbios", <<"n","o">>) = <<"y","e","s">>

\* entry.attrib.get("name") or entry.attrib.get("romname") or ""
EntryName(entry) ==
  IF DictGet(entry.attrib, "name", << >>) # << >> THEN entry.attrib["name"]
  ELSE DictGet(entry.attrib, "romname", << >>)

\* The loop over the game and machine elements: meta after the entries from i on.
RECURSIVE MetaEntries(_, _, _)
MetaEntries(entries, i, meta) ==
  IF i > Len(entries) THEN meta
  ELSE
    LET entry    == entries[i]
        name     == EntryName(entry)
        title    == ChildText(entry, "description", name)
        year     == ChildText(entry, "year", << >>)
        manuf    == ChildText(entry, "manufacturer", << >>)
        is_clone == "cloneof" \in DOMAIN entry.attrib
    IN  IF IsBiosEntry(entry) THEN MetaEntries(entries, i + 1, meta)
        ELSE IF name # << >>
        THEN MetaEntries(entries, i + 1,
               DictPut(meta, Lower(name),
                       [ title |-> title, year |-> year, manuf |-> manuf,
                         is_clone |-> is_clone ]))
        ELSE MetaEntries(entries, i + 1, meta)

\* root.findall(".//game") + root.findall(".//machine")
GameAndMachine(doc) ==
  SelectSeq(doc, LAMBDA e : e.tag = "game") \o SelectSeq(doc, LAMBDA e : e.tag = "machine")

\* The index each metadata document parses to.
MetaIndex ==
  [ d \in DOMAIN DatDocuments |-> MetaEntries(GameAndMachine(DatDocuments[d]), 1, EmptyDict) ]

\* parse_dat_metadata(xml_path): ET.parse raises on a file it cannot read or
\* parse, the except clause prints and the empty meta is returned.
parse_dat_metadata(xml_path) ==
  IF xml_path = "" \/ ~PathExists(xml_path) THEN EmptyDict
  ELSE IF fs.dat \in { "unreadable", "malformed" } THEN EmptyDict
  ELSE MetaIndex[fs.dat]

(***************************************************************************)
(* get_rom_list_cached                                                     *)
(***************************************************************************)
\* f.lower().endswith(('.zip', '.7z', '.cue'))
HasRomExtension(f) ==
  \E ext \in RomExtensions : EndsWith(Lower(f), ext)

\* f.lower().endswith('.cue')
HasCueExtension(f) ==
  EndsWith(Lower(f), CueExtension)

\* os.path.isfile(os.path.join(roms_dir, f))
IsFile(f) ==
  f \notin DOMAIN SubDirFiles

\* The files os.walk(roms_dir) yields under the sub-directories entries[i..],
\* each as os.path.relpath(os.path.join(root, f), roms_dir).
RECURSIVE WalkSubDirs(_, _)
WalkSubDirs(entries, i) ==
  IF i > Len(entries) THEN << >>
  ELSE IF IsFile(entries[i]) THEN WalkSubDirs(entries, i + 1)
  ELSE [ j \in 1..Len(SubDirFiles[entries[i]]) |->
           entries[i] \o <<"/">> \o SubDirFiles[entries[i]][j] ]
       \o WalkSubDirs(entries, i + 1)

\* The relative paths of the files os.walk(roms_dir) yields: the files of the
\* top directory, then those of each sub-directory.  os.walk ignores the
\* error of a directory it cannot list, and then yields nothing.
WalkFiles(dir) ==
  IF dir.kind # "dir" THEN << >>
  ELSE SelectSeq(dir.entries, IsFile) \o WalkSubDirs(dir.entries, 1)

\* f for f in os.listdir(roms_dir) if os.path.isfile(...) and f.lower().endswith(...)
IsRomFile(f) ==
  IsFile(f) /\ HasRomExtension(f)

\* The candidate files of roms_dir, in the order of enumeration:
\* [raised, roms].  os.listdir raises on a path that is not a directory or
\* that may not be read; get_rom_list_cached does not catch it.
ListRoms(system_name) ==
  IF system_name = "SNK Neo-Geo CD"
  THEN [ raised |-> FALSE, roms |-> SelectSeq(WalkFiles(fs.dir), HasCueExtension) ]
  ELSE IF fs.dir.kind # "dir"
  THEN [ raised |-> TRUE, roms |-> << >> ]
  ELSE [ raised |-> FALSE, roms |-> SelectSeq(fs.dir.entries, IsRomFile) ]

\* if stem in ROM_HIDE_LIST: the stem as it is spelt.
IsHiddenCaseSensitive(stem) ==
  stem \in ROM_HIDE_LIST

\* if stem.lower() in ROM_HIDE_LIST: continue
IsHidden(stem) ==
  Lower(stem) \in ROM_HIDE_LIST

\* if meta and stem.lower() in meta: continue, the test inverted.
InMetadata(meta, key) ==
  DOMAIN meta # {} /\ key \in DOMAIN meta

\* if meta and stem.lower() not in meta: continue (key is stem.lower())
NotInMetadata(meta, key) ==
  DOMAIN meta # {} /\ key \notin DOMAIN meta

\* The title table consulted first, the index only for a stem it does not have.
RomEntryTitleTableFirst(rom, stem, key, meta, rom_titles) ==
  IF key \in DOMAIN rom_titles
  THEN [ rom |-> rom, title |-> rom_titles[key], year |-> << >>, manuf |-> << >>,
         is_clone |-> FALSE ]
  ELSE IF key \in DOMAIN meta
  THEN [ rom |-> rom, title |-> meta[key].title, year |-> meta[key].year,
         manuf |-> meta[key].manuf, is_clone |-> meta[key].is_clone ]
  ELSE [ rom |-> rom, title |-> stem, year |-> << >>, manuf |-> << >>, is_clone |-> FALSE ]

\* The fields of a candidate (key is stem.lower()): those of meta when the key
\* is there, else the title of rom_titles, or the stem, and empty year and
\* manufacturer.
RomEntry(rom, stem, key, meta, rom_titles) ==
  IF key \in DOMAIN meta
  THEN [ rom |-> rom, title |-> meta[key].title, year |-> meta[key].year,
         manuf |-> meta[key].manuf, is_clone |-> meta[key].is_clone ]
  ELSE [ rom |-> rom, title |-> DictGet(rom_titles, key, stem), year |-> << >>,
         manuf |-> << >>, is_clone |-> FALSE ]

\* What a candidate that is not hidden appends to rom_list.
Appended(rom, stem, key, system_name, meta, rom_titles) ==
  IF system_name = "SNK Neo-Geo CD" THEN << RomEntry(rom, stem, key, meta, rom_titles) >>
  ELSE IF NotInMetadata(meta, key) THEN << >>
  ELSE << RomEntry(rom, stem, key, meta, rom_titles) >>

\* One pass of the loop over roms, for the candidate rom with stem
\* Path(rom).stem.
LoopBody(rom, stem, system_name, meta, rom_titles) ==
  IF IsHidden(stem) THEN << >>
  ELSE Appended(rom, stem, Lower(stem), system_name, meta, rom_titles)

\* The loop over roms: what the candidates from i on append to rom_list.
RECURSIVE RomList(_, _, _, _, _)
RomList(candidates, i, system_name, meta, rom_titles) ==
  IF i > Len(candidates) THEN << >>
  ELSE LoopBody(candidates[i], PathStem(candidates[i]), system_name, meta, rom_titles)
       \o RomList(candidates, i + 1, system_name, meta, rom_titles)

\* key=lambda x: x[1]: the title as it is spelt.
SortKeyCaseSensitive(x) ==
  x.title

\* key=lambda x: x[1].lower()
SortKey(x) ==
  Lower(x.title)

\* Where a stable sort puts an entry with the given key in the sorted list:
\* after the entries, from i on, whose key is <= it.
RECURSIVE InsertionPoint(_, _, _)
InsertionPoint(sorted, key, i) ==
  IF i > Len(sorted) THEN i
  ELSE IF StrLeq(SortKey(sorted[i]), key) THEN InsertionPoint(sorted, key, i + 1)
  ELSE i

\* list.insert(at - 1, x)
InsertAt(list, at, x) ==
  SubSeq(list, 1, at - 1) \o << x >> \o Drop(list, at)

\* sorted(rom_list, key=...): a stable sort, here by insertion of the entries
\* from i on, in the order of the list.
RECURSIVE Sorted(_, _, _)
Sorted(rom_list, i, sorted) ==
  IF i > Len(rom_list) THEN sorted
  ELSE Sorted(rom_list, i + 1,
              InsertAt(sorted, InsertionPoint(sorted, SortKey(rom_list[i]), 1), rom_list[i]))

\* if cache: an empty list in the cache counts as no cache.
CacheHitIfTrue(cache_dict, cache_key) ==
  cache_key \in DOMAIN cache_dict /\ cache_dict[cache_key] # << >>

\* cache = cache_dict.get(cache_key); if cache is not None
CacheHit(cache_dict, cache_key) ==
  cache_key \in DOMAIN cache_dict

\* if not roms_dir or not os.path.exists(roms_dir)
NoRomsDir(roms_dir) ==
  roms_dir = "" \/ ~PathExists(roms_dir)

\* cache_dict[cache_key] = rom_list; return rom_list
Stored(cache_dict, cache_key, rom_list, io) ==
  [ raised |-> FALSE, ret |-> rom_list, cache |-> DictPut(cache_dict, cache_key, rom_list),
    io |-> io ]

\* An exception leaves get_rom_list_cached: nothing is stored.
Raised(cache_dict, io) ==
  [ raised |-> TRUE, ret |-> << >>, cache |-> cache_dict, io |-> io ]

\* get_rom_list_cached after the cache missed, with rom_titles the result of
\* load_rom_titles, meta that of parse_dat_metadata (or the empty dict),
\* listed the listing of the directory and io the sources read so far.
CacheMiss(cache_key, roms_dir, system_name, cache_dict, rom_titles, meta, listed, io) ==
  IF rom_titles.raised THEN Raised(cache_dict, { "titles" })
  ELSE IF NoRomsDir(roms_dir) THEN Stored(cache_dict, cache_key, << >>, io)
  ELSE IF listed.raised THEN Raised(cache_dict, io \cup { "dir" })
  ELSE Stored(cache_dict, cache_key,
              Sorted(RomList(listed.roms, 1, system_name, meta, rom_titles.value), 1, << >>),
              io \cup { "dir" })

\* get_rom_list_cached: [raised, ret, cache, io], where cache is cache_dict
\* after the call and io the sources the call went to (the title table, the
\* metadata file, the listing of the directory).
get_rom_list_cached(rom_titles_file, roms_dir, system_name, xml_dat_file, cache_dict) ==
  IF CacheHit(cache_dict, << roms_dir, system_name, xml_dat_file >>)
  THEN [ raised |-> FALSE, ret |-> cache_dict[<< roms_dir, system_name, xml_dat_file >>],
         cache |-> cache_dict, io |-> {} ]
  ELSE CacheMiss(<< roms_dir, system_name, xml_dat_file >>, roms_dir, system_name, cache_dict,
                 load_rom_titles(rom_titles_file),
                 IF xml_dat_file # "" THEN parse_dat_metadata(xml_dat_file) ELSE EmptyDict,
                 ListRoms(system_name),
                 IF xml_dat_file # "" THEN { "titles", "dat" } ELSE { "titles" })

(***************************************************************************)
(* filter_rom_list                                                         *)
(***************************************************************************)
\* A test that drops the clones whether or not hide_clones is set.
PassesFilterHidingClones(x, search, year_filter, manuf_filter, hide_clones) ==
  /\ ~x.is_clone
  /\ ~(year_filter # << >> /\ ~Contains(year_filter, x.year))
  /\ ~(manuf_filter # << >> /\ ~Contains(Lower(manuf_filter), Lower(x.manuf)))
  /\ (search = << >> \/ Contains(search, Lower(x.title)))

\* The test of one entry: the entry is appended to filtered.
PassesFilter(x, search, year_filter, manuf_filter, hide_clones) ==
  /\ ~(hide_clones /\ x.is_clone)
  /\ ~(year_filter # << >> /\ ~Contains(year_filter, x.year))
  /\ ~(manuf_filter # << >> /\ ~Contains(Lower(manuf_filter), Lower(x.manuf)))
  /\ (search = << >> \/ Contains(search, Lower(x.title)))

filter_rom_list(rom_list, search, year_filter, manuf_filter, hide_clones) ==
  SelectSeq(rom_list, LAMBDA x : PassesFilter(x, search, year_filter, manuf_filter, hide_clones))

(***************************************************************************)
(* MainWindow.update_rom_list                                              *)
(***************************************************************************)
\* search = self.search_edit.text().lower()
SearchArgument(text) ==
  Lower(text)

\* year_filter = self.year_edit.text().strip(), and manuf_filter likewise
FilterArgument(text) ==
  Strip(text)

\* update_rom_list from all_roms = get_rom_list_cached(...) on, with call the
\* result of that call.  calls are the calls of get_rom_list_cached made, each
\* with its key, its outcome and the sources it read; filter is the call of
\* filter_rom_list, with its arguments and its result.
Filtered(call, key, search, year_filter, manuf_filter, hide_clones) ==
  [ raised |-> call.raised,
    cache  |-> call.cache,
    calls  |-> << [ key |-> key, raised |-> call.raised, ret |-> call.ret, io |-> call.io ] >>,
    filter |-> [ rom_list |-> call.ret, search |-> search, year_filter |-> year_filter,
                 manuf_filter |-> manuf_filter, hide_clones |-> hide_clones,
                 ret |-> filter_rom_list(call.ret, search, year_filter, manuf_filter,
                                         hide_clones) ] ]

\* update_rom_list with the configuration c, the system sys_name selected, the
\* widgets as given and the cache cache_dict.
update_rom_list(c, sys_name, search_text, year_text, manuf_text, hide_clones, cache_dict) ==
  Filtered(get_rom_list_cached(rom_titles_file_of[sys_name], c.roms_dirs[sys_name], sys_name,
                               c.xml_dat_files[sys_name], cache_dict),
           << c.roms_dirs[sys_name], sys_name, c.xml_dat_files[sys_name] >>,
           SearchArgument(search_text), FilterArgument(year_text), FilterArgument(manuf_text),
           hide_clones)

\* The state after a handler ran update_rom_list with result r.  An exception
\* leaves the handler: self.roms keeps its value and the program aborts.
\* self.roms_list.clear() leaves the list without a current row.
Updated(r) ==
  /\ rom_cache' = r.cache
  /\ roms' = IF r.raised THEN roms ELSE r.filter.ret
  /\ last' = [ n |-> 1 - last.n, calls |-> r.calls,
               filter |-> IF r.raised THEN << >> ELSE << r.filter >> ]
  /\ pc' = IF r.raised THEN "aborted" ELSE "running"
  /\ win' = IF r.raised THEN win ELSE [ win EXCEPT !.currentRow = -1 ]

(***************************************************************************)
(* Bounds.                                                                 *)
(***************************************************************************)
\* The most entries the ROM directory holds.
MaxFiles == 2

\* The most steps (handlers run and changes of the disk) of one behaviour of
\* the session model.
MaxSteps == 3

\* The sequences of at most n distinct elements of S.
RECURSIVE Listings(_, _)
Listings(S, n) ==
  IF n = 0 THEN { << >> }
  ELSE LET shorter == Listings(S, n - 1)
       IN  shorter \cup
           { Append(p[1], p[2]) :
               p \in { q \in shorter \X S :
                         Len(q[1]) = n - 1 /\ \A i \in 1..Len(q[1]) : q[1][i] # q[2] } }

\* The states of the ROM directory path: what is not a readable directory has
\* no entries.
DirStates ==
  { [ kind |-> k, entries |-> << >> ] : k \in DirKinds \ { "dir" } }
  \cup { [ kind |-> "dir", entries |-> l ] : l \in Listings(EntryNames, MaxFiles) }

\* The values of a directory or metadata path in the configuration: unset,
\* or the path on the disk.
RomsDirSettings ==
  { "", RomsPath }

XmlDatSettings ==
  { "", DatPath }

\* What the user types into the search, year and manufacturer fields.
SearchTexts ==
  { << >>, <<"B">>, <<"S","L">> }

YearTexts ==
  { << >>, <<"1","9","9">>, <<" ","1","9","9","2"," ">> }

ManufTexts ==
  { << >>, <<"c","a","p">>, <<" ","S","N"," ">> }

\* No handler has run yet.
NoCall ==
  [ n |-> 0, calls |-> << >>, filter |-> << >> ]

(***************************************************************************)
(* The input controller: its tables and the state of a view.               *)
(***************************************************************************)
\* The keys of last_hat_held and of last_key_held.
HatKeys ==
  { "up", "down", "left", "right" }

ArrowKeys ==
  { "left", "right" }

\* The bindings check_button is called with, in the order of the calls, in
\* MainWindow and in FavoritesDialog.
MainButtons ==
  << "button_up", "button_down", "button_select", "button_favorites", "button_prev_tab",
     "button_next_tab" >>

FavoritesButtons ==
  << "button_up", "button_down", "button_select", "button_favorites" >>

\* DEFAULT_CONFIG["joystick_config"], with the defaults poll_joystick and
\* FavoritesDialog.__init__ give to the keys it does not set; the three times
\* are the seconds of the configuration times 1000.
DEFAULT_CONFIG ==
  [ hat_scroll_cooldown   |-> 80,
    hat_fastest_steps     |-> 10,
    hat_fastest_delay     |-> 20,
    button_debounce_delay |-> 200,
    buttons |-> [ b \in { "button_up", "button_down", "button_select", "button_favorites",
                          "button_prev_tab", "button_next_tab" } |->
                    CASE b = "button_up"        -> 2
                      [] b = "button_down"      -> 3
                      [] b = "button_select"    -> 0
                      [] b = "button_favorites" -> 7
                      [] b = "button_prev_tab"  -> 4
                      [] b = "button_next_tab"  -> 5 ] ]

\* self.debounce_delay of MainWindow.
MainDebounceDelay == 200

\* The dicts of a view as __init__ sets them.
NewHatHeld ==
  [ k \in HatKeys |-> FALSE ]

NewHatHeldTime ==
  [ k \in HatKeys |-> 0 ]

\* MainWindow as __init__ leaves it: a list without a current row.
NewMainWindow ==
  [ currentRow          |-> -1,
    last_hat_held       |-> NewHatHeld,
    last_hat_held_time  |-> NewHatHeldTime,
    last_key_held       |-> [ k \in ArrowKeys |-> FALSE ],
    last_key_held_time  |-> [ k \in ArrowKeys |-> 0 ],
    last_button_states  |-> EmptyDict,
    last_button_times   |-> EmptyDict ]

\* FavoritesDialog as __init__ leaves it.
NewFavoritesDialog ==
  [ currentRow          |-> -1,
    last_hat_held       |-> NewHatHeld,
    last_hat_held_time  |-> NewHatHeldTime,
    last_button_states  |-> EmptyDict,
    last_button_times   |-> EmptyDict ]

\* An input no poll has seen held: held says whether the last poll saw the
\* input held, since is the time of the first poll of the hold and repeated
\* the time of the last poll of the hold, after the first, that moved the
\* selection for the input, 0 for none.
NotHeld ==
  [ held |-> FALSE, since |-> 0, repeated |-> 0 ]

\* No poll_joystick has run yet.  seen and invoked are the history of each
\* view: whether the last poll that read the button of a binding saw it down,
\* and the time its action was last invoked, 0 for never; input is the
\* history of the hat and of the keys as the polls saw them, and keys says
\* which arrow keys the user holds down.
NotPolled ==
  [ n |-> 0, view |-> "none", now |-> 0, raised |-> FALSE, moves |-> << >>, resumed |-> << >>,
    seen |-> [ main      |-> [ b \in DOMAIN DEFAULT_CONFIG.buttons |-> FALSE ],
               favorites |-> [ b \in DOMAIN DEFAULT_CONFIG.buttons |-> FALSE ] ],
    invoked |-> [ main      |-> [ b \in DOMAIN DEFAULT_CONFIG.buttons |-> 0 ],
                  favorites |-> [ b \in DOMAIN DEFAULT_CONFIG.buttons |-> 0 ] ],
    keys |-> [ k \in ArrowKeys |-> FALSE ],
    input |-> [ main      |-> [ hat |-> [ k \in HatKeys |-> NotHeld ],
                                key |-> [ k \in ArrowKeys |-> NotHeld ] ],
                favorites |-> [ hat |-> [ k \in HatKeys |-> NotHeld ] ] ] ]

(***************************************************************************)
(* Handlers.  Each is a whole handler: the change it makes and the          *)
(* update_rom_list it ends with.                                           *)
(***************************************************************************)
\* MainWindow.__init__, from self.rom_cache = {} on: the first update_rom_list.
Startup ==
  /\ pc = "init"
  /\ Updated(update_rom_list(cfg, systems_combo, search_edit, year_edit, manuf_edit,
                             hide_clones_chk, rom_cache))
  /\ UNCHANGED << fs, cfg, systems_combo, search_edit, year_edit, manuf_edit,
                  hide_clones_chk >>
  /\ UNCHANGED padVars

\* The user selects another system: systems_combo.currentIndexChanged.
SelectSystem(s) ==
  /\ pc = "running"
  /\ s # systems_combo
  /\ systems_combo' = s
  /\ Updated(update_rom_list(cfg, s, search_edit, year_edit, manuf_edit,
                             hide_clones_chk, rom_cache))
  /\ UNCHANGED << fs, cfg, search_edit, year_edit, manuf_edit, hide_clones_chk >>
  /\ UNCHANGED padVars

\* The user edits the search field: search_edit.textChanged.
EditSearch(text) ==
  /\ pc = "running"
  /\ text # search_edit
  /\ search_edit' = text
  /\ Updated(update_rom_list(cfg, systems_combo, text, year_edit, manuf_edit,
                             hide_clones_chk, rom_cache))
  /\ UNCHANGED << fs, cfg, systems_combo, year_edit, manuf_edit, hide_clones_chk >>
  /\ UNCHANGED padVars

\* The user edits the year field: year_edit.textChanged.
EditYear(text) ==
  /\ pc = "running"
  /\ text # year_edit
  /\ year_edit' = text
  /\ Updated(update_rom_list(cfg, systems_combo, search_edit, text, manuf_edit,
                             hide_clones_chk, rom_cache))
  /\ UNCHANGED << fs, cfg, systems_combo, search_edit, manuf_edit, hide_clones_chk >>
  /\ UNCHANGED padVars

\* The user edits the manufacturer field: manuf_edit.textChanged.
EditManuf(text) ==
  /\ pc = "running"
  /\ text # manuf_edit
  /\ manuf_edit' = text
  /\ Updated(update_rom_list(cfg, systems_combo, search_edit, year_edit, text,
                             hide_clones_chk, rom_cache))
  /\ UNCHANGED << fs, cfg, systems_combo, search_edit, year_edit, hide_clones_chk >>
  /\ UNCHANGED padVars

\* MainWindow.toggle_hide_clones
toggle_hide_clones ==
  /\ pc = "running"
  /\ hide_clones_chk' = ~hide_clones_chk
  /\ Updated(update_rom_list(cfg, systems_combo, search_edit, year_edit, manuf_edit,
                             ~hide_clones_chk, rom_cache))
  /\ UNCHANGED << fs, cfg, systems_combo, search_edit, year_edit, manuf_edit >>
  /\ UNCHANGED padVars

\* show_settings after SettingsDialog.save ran update_rom_list with result
\* r1: the dialog is accepted and show_settings runs update_rom_list again,
\* with result r2.
Accepted(r1, r2) ==
  [ r2 EXCEPT !.calls = r1.calls \o r2.calls ]

\* SettingsDialog.save from self.update_rom_list_callback() on, with r1 the
\* result of that call and c the configuration saved.
Saved(c, r1) ==
  IF r1.raised THEN Updated(r1)
  ELSE Updated(Accepted(r1, update_rom_list(c, systems_combo, search_edit, year_edit,
                                             manuf_edit, hide_clones_chk, r1.cache)))

\* The configuration SettingsDialog.save writes.
SavedConfig(sys_name, roms_dir, xml_file) ==
  [ cfg EXCEPT !.roms_dirs[sys_name] = roms_dir, !.xml_dat_files[sys_name] = xml_file ]

\* MainWindow.show_settings with the dialog saved: SettingsDialog.save sets
\* the paths of the system chosen in the dialog and runs update_rom_list, and
\* show_settings runs it once more after the dialog was accepted.
show_settings(sys_name, roms_dir, xml_file) ==
  /\ pc = "running"
  /\ cfg' = SavedConfig(sys_name, roms_dir, xml_file)
  /\ Saved(SavedConfig(sys_name, roms_dir, xml_file),
           update_rom_list(SavedConfig(sys_name, roms_dir, xml_file), systems_combo, search_edit,
                           year_edit, manuf_edit, hide_clones_chk, rom_cache))
  /\ UNCHANGED << fs, systems_combo, search_edit, year_edit, manuf_edit, hide_clones_chk >>
  /\ UNCHANGED padVars

\* filter_rom_list called on a built list with the arguments given: the
\* function returns its result and assigns nothing else.
CallFilter(key, search, year_filter, manuf_filter, hide_clones) ==
  /\ pc = "running"
  /\ key \in DOMAIN rom_cache
  /\ last' = [ n |-> 1 - last.n, calls |-> << >>,
               filter |-> << [ rom_list |-> rom_cache[key], search |-> search,
                               year_filter |-> year_filter, manuf_filter |-> manuf_filter,
                               hide_clones |-> hide_clones,
                               ret |-> filter_rom_list(rom_cache[key], search, year_filter,
                                                       manuf_filter, hide_clones) ] >> ]
  /\ UNCHANGED << fs, cfg, systems_combo, search_edit, year_edit, manuf_edit, hide_clones_chk,
                  rom_cache, roms, pc >>
  /\ UNCHANGED << win, padVars >>

(***************************************************************************)
(* The disk changes under the running program.                             *)
(***************************************************************************)
\* A file or a sub-directory appears in the ROM directory, at any place of the
\* enumeration order.
AddFile(e, at) ==
  /\ pc = "running"
  /\ fs.dir.kind = "dir"
  /\ Len(fs.dir.entries) < MaxFiles
  /\ \A i \in 1..Len(fs.dir.entries) : fs.dir.entries[i] # e
  /\ at \in 1..(Len(fs.dir.entries) + 1)
  /\ fs' = [ fs EXCEPT !.dir.entries =
               SubSeq(fs.dir.entries, 1, at - 1) \o << e >> \o Drop(fs.dir.entries, at) ]
  /\ UNCHANGED << cfg, systems_combo, search_edit, year_edit, manuf_edit, hide_clones_chk,
                  rom_cache, roms, last, pc >>
  /\ UNCHANGED << win, padVars >>

\* An entry of the ROM directory is removed.
RemoveFile(at) ==
  /\ pc = "running"
  /\ fs.dir.kind = "dir"
  /\ at \in 1..Len(fs.dir.entries)
  /\ fs' = [ fs EXCEPT !.dir.entries =
               SubSeq(fs.dir.entries, 1, at - 1) \o Drop(fs.dir.entries, at + 1) ]
  /\ UNCHANGED << cfg, systems_combo, search_edit, year_edit, manuf_edit, hide_clones_chk,
                  rom_cache, roms, last, pc >>
  /\ UNCHANGED << win, padVars >>

\* The ROM directory is removed, replaced by a file, made unreadable, or
\* created empty.
ReplaceDir(kind) ==
  /\ pc = "running"
  /\ kind # fs.dir.kind
  /\ fs' = [ fs EXCEPT !.dir = [ kind |-> kind, entries |-> << >> ] ]
  /\ UNCHANGED << cfg, systems_combo, search_edit, year_edit, manuf_edit, hide_clones_chk,
                  rom_cache, roms, last, pc >>
  /\ UNCHANGED << win, padVars >>

\* The metadata file is removed, damaged or rewritten.
WriteDat(d) ==
  /\ pc = "running"
  /\ d # fs.dat
  /\ fs' = [ fs EXCEPT !.dat = d ]
  /\ UNCHANGED << cfg, systems_combo, search_edit, year_edit, manuf_edit, hide_clones_chk,
                  rom_cache, roms, last, pc >>
  /\ UNCHANGED << win, padVars >>

\* A title table is removed, damaged or rewritten.
WriteTitles(f, d) ==
  /\ pc = "running"
  /\ d # fs.titles[f]
  /\ fs' = [ fs EXCEPT !.titles[f] = d ]
  /\ UNCHANGED << cfg, systems_combo, search_edit, year_edit, manuf_edit, hide_clones_chk,
                  rom_cache, roms, last, pc >>
  /\ UNCHANGED << win, padVars >>

(***************************************************************************)
(* The list widgets.                                                       *)
(***************************************************************************)
Max(a, b) ==
  IF a >= b THEN a ELSE b

Min(a, b) ==
  IF a <= b THEN a ELSE b

\* QListWidget.setCurrentRow(row) on a list of size items: a row that is no
\* item of the list leaves the list without a current row.
setCurrentRow(row, size) ==
  IF row \in 0..(size - 1) THEN row ELSE -1

\* self.roms_list.count() after update_rom_list: one item for each ROM, or the
\* item "No ROMs found.".
ListCount(rom_list) ==
  IF rom_list = << >> THEN 1 ELSE Len(rom_list)

\* max(0, idx - steps) towards the start of the list (up, left) and
\* min(size - 1, idx + steps) towards its end (down, right).
Target(k, idx, n, size) ==
  IF k \in { "up", "left" } THEN Max(0, idx - n) ELSE Min(size - 1, idx + n)

\* A poll in progress, s, after one more thing it did: src is "hat", "key" or
\* "button", k the key of the dict or the binding, branch the branch of the
\* code taken, and row the argument of setCurrentRow on a list of size items.
Moved(s, src, k, branch, row, size) ==
  [ s EXCEPT !.currentRow = setCurrentRow(row, size),
             !.moves = Append(@, [ src |-> src, key |-> k, branch |-> branch,
                                   from |-> s.currentRow,
                                   to |-> setCurrentRow(row, size) ]) ]

\* Something a poll did that sets no current row.
Done(s, src, k, branch) ==
  [ s EXCEPT !.moves = Append(@, [ src |-> src, key |-> k, branch |-> branch,
                                   from |-> s.currentRow, to |-> s.currentRow ]) ]

(***************************************************************************)
(* MainWindow.poll_joystick.  t is now, idx and size are the current row   *)
(* and the count of roms_list when the poll starts.                        *)
(***************************************************************************)
\* A hat that repeats only after more than scroll_cooldown.
HatAxisAfterCooldown(s, k, direction, idx, size, t, scroll_cooldown) ==
  IF direction
  THEN IF ~s.last_hat_held[k]
       THEN [ Moved(s, "hat", k, "edge", Target(k, idx, 1, size), size)
                EXCEPT !.last_hat_held[k] = TRUE, !.last_hat_held_time[k] = t ]
       ELSE IF t - s.last_hat_held_time[k] > scroll_cooldown
            THEN [ Moved(s, "hat", k, "repeat", Target(k, s.currentRow, 1, size), size)
                     EXCEPT !.last_hat_held_time[k] = t ]
            ELSE s
  ELSE [ s EXCEPT !.last_hat_held[k] = FALSE ]

\* if hat_up: ... else: ..., and the same for hat_down: one row at the press,
\* one row every scroll_cooldown while held.
HatAxis(s, k, direction, idx, size, t, scroll_cooldown) ==
  IF direction
  THEN IF ~s.last_hat_held[k]
       THEN [ Moved(s, "hat", k, "edge", Target(k, idx, 1, size), size)
                EXCEPT !.last_hat_held[k] = TRUE, !.last_hat_held_time[k] = t ]
       ELSE IF t - s.last_hat_held_time[k] >= scroll_cooldown
            THEN [ Moved(s, "hat", k, "repeat", Target(k, s.currentRow, 1, size), size)
                     EXCEPT !.last_hat_held_time[k] = t ]
            ELSE s
  ELSE [ s EXCEPT !.last_hat_held[k] = FALSE ]

\* The fallback branch of scroll_list taken first.
scroll_list_fallback_first(s, direction, nsteps, k, is_keyboard, idx, size, t, fastest_delay) ==
  LET held == IF is_keyboard THEN "last_key_held" ELSE "last_hat_held"
      time == IF is_keyboard THEN "last_key_held_time" ELSE "last_hat_held_time"
      src  == IF is_keyboard THEN "key" ELSE "hat"
  IN  IF direction
      THEN IF ~s[held][k]
           THEN [ Moved(s, src, k, "edge", Target(k, idx, nsteps, size), size)
                    EXCEPT ![held][k] = TRUE, ![time][k] = t ]
           ELSE IF t - s[time][k] > 200
                THEN [ Moved(s, src, k, "fallback", Target(k, s.currentRow, nsteps, size), size)
                         EXCEPT ![time][k] = t ]
                ELSE IF t - s[time][k] > fastest_delay
                     THEN [ Moved(s, src, k, "fastest",
                                  Target(k, s.currentRow, nsteps, size), size)
                              EXCEPT ![time][k] = t - (fastest_delay - 50) ]
                     ELSE s
      ELSE [ s EXCEPT ![held][k] = FALSE ]

\* scroll_list(direction, steps, held_key, held_time_key, is_keyboard), with
\* nsteps for steps.
scroll_list(s, direction, nsteps, k, is_keyboard, idx, size, t, fastest_delay) ==
  LET held == IF is_keyboard THEN "last_key_held" ELSE "last_hat_held"
      time == IF is_keyboard THEN "last_key_held_time" ELSE "last_hat_held_time"
      src  == IF is_keyboard THEN "key" ELSE "hat"
  IN  IF direction
      THEN IF ~s[held][k]
           THEN [ Moved(s, src, k, "edge", Target(k, idx, nsteps, size), size)
                    EXCEPT ![held][k] = TRUE, ![time][k] = t ]
           ELSE IF t - s[time][k] > fastest_delay
                THEN [ Moved(s, src, k, "fastest", Target(k, s.currentRow, nsteps, size), size)
                         EXCEPT ![time][k] = t - (fastest_delay - 50) ]
                ELSE IF t - s[time][k] > 200
                     THEN [ Moved(s, src, k, "fallback",
                                  Target(k, s.currentRow, nsteps, size), size)
                              EXCEPT ![time][k] = t ]
                     ELSE s
      ELSE [ s EXCEPT ![held][k] = FALSE ]

\* A hat block whose left and right repeat after hat_scroll_cooldown.
MainHatWithCooldown(s, hat, idx, size, t, jc) ==
  scroll_list(
    scroll_list(
      HatAxis(HatAxis(s, "up", hat[2] = 1, idx, size, t, jc.hat_scroll_cooldown),
              "down", hat[2] = -1, idx, size, t, jc.hat_scroll_cooldown),
      hat[1] = -1, jc.hat_fastest_steps, "left", FALSE, idx, size, t, jc.hat_scroll_cooldown),
    hat[1] = 1, jc.hat_fastest_steps, "right", FALSE, idx, size, t, jc.hat_scroll_cooldown)

\* The block under `if self.joystick and self.joystick.get_numhats() > 0`, with
\* hat the pair get_hat(0) returns.
MainHat(s, hat, idx, size, t, jc) ==
  scroll_list(
    scroll_list(
      HatAxis(HatAxis(s, "up", hat[2] = 1, idx, size, t, jc.hat_scroll_cooldown),
              "down", hat[2] = -1, idx, size, t, jc.hat_scroll_cooldown),
      hat[1] = -1, jc.hat_fastest_steps, "left", FALSE, idx, size, t, jc.hat_fastest_delay),
    hat[1] = 1, jc.hat_fastest_steps, "right", FALSE, idx, size, t, jc.hat_fastest_delay)

\* The two calls of scroll_list for the arrow keys.
MainKeys(s, idx, size, t, jc) ==
  scroll_list(
    scroll_list(s, s.last_key_held["left"], jc.hat_fastest_steps, "left", TRUE, idx, size, t,
                jc.hat_fastest_delay),
    s.last_key_held["right"], jc.hat_fastest_steps, "right", TRUE, idx, size, t,
    jc.hat_fastest_delay)

\* launch_selected_rom: a warning without a current row or without ROMs,
\* else run_rom on the ROM of the current row.
launch_selected_rom(s, src, k) ==
  IF s.currentRow < 0 \/ s.roms = << >>
  THEN Done(s, src, k, "warning")
  ELSE Done(s, src, k, "launch")

\* systems_combo.setCurrentIndex on the other system, and the update_rom_list
\* of currentIndexChanged with result r; an exception leaves the poll.
TabSwitched(s, k, sys_name, r) ==
  IF r.raised
  THEN [ Done(s, "button", k, "tab")
           EXCEPT !.combo = sys_name, !.cache = r.cache, !.calls = r.calls,
                  !.filter = << >>, !.raised = TRUE ]
  ELSE [ Moved(s, "button", k, "tab", -1, ListCount(r.filter.ret))
           EXCEPT !.combo = sys_name, !.cache = r.cache, !.calls = r.calls,
                  !.filter = << r.filter >>, !.roms = r.filter.ret ]

\* The other system of the combo box: (index - 1) % count and
\* (index + 1) % count.
OtherSystem(sys_name) ==
  CHOOSE o \in Systems : o # sys_name

\* action() of a check_button of MainWindow; ui holds the configuration and
\* the filter widgets.
MainAction(s, btn_key, ui) ==
  CASE btn_key = "button_up" ->
         Moved(s, "button", btn_key, "invoke", Max(0, s.currentRow - 1), ListCount(s.roms))
    [] btn_key = "button_down" ->
         Moved(s, "button", btn_key, "invoke",
               Min(ListCount(s.roms) - 1, s.currentRow + 1), ListCount(s.roms))
    [] btn_key = "button_select" ->
         launch_selected_rom(s, "button", btn_key)
    [] btn_key = "button_favorites" ->
         [ Done(s, "button", btn_key, "open") EXCEPT !.opened = TRUE ]
    [] OTHER ->
         TabSwitched(s, btn_key, OtherSystem(s.combo),
                     update_rom_list(ui.cfg, OtherSystem(s.combo), ui.search_edit, ui.year_edit,
                                     ui.manuf_edit, ui.hide_clones_chk, s.cache))

\* The end of check_button once action() returned.
Invoked(s, btn_key, t) ==
  IF s.raised THEN s ELSE [ s EXCEPT !.last_button_times = DictPut(@, btn_key, t) ]

\* A check_button that invokes while the button is down, whatever it was.
check_button_while_pressed(s, btn_key, t, pressed, numbuttons, jc, ui) ==
  IF jc.buttons[btn_key] < 0 \/ jc.buttons[btn_key] >= numbuttons
  THEN s
  ELSE LET after ==
             IF /\ jc.buttons[btn_key] \in pressed
                /\ t - DictGet(s.last_button_times, btn_key, 0) >= MainDebounceDelay
             THEN Invoked(MainAction(s, btn_key, ui), btn_key, t)
             ELSE s
       IN  IF after.raised THEN after
           ELSE [ after EXCEPT !.last_button_states =
                                 DictPut(@, btn_key, jc.buttons[btn_key] \in pressed) ]

\* check_button(btn_key, action) of MainWindow, with pressed the set of the
\* buttons of the device that are down and numbuttons get_numbuttons().
check_button(s, btn_key, t, pressed, numbuttons, jc, ui) ==
  IF jc.buttons[btn_key] < 0 \/ jc.buttons[btn_key] >= numbuttons
  THEN s
  ELSE LET after ==
             IF /\ jc.buttons[btn_key] \in pressed
                /\ ~DictGet(s.last_button_states, btn_key, FALSE)
                /\ t - DictGet(s.last_button_times, btn_key, 0) >= MainDebounceDelay
             THEN Invoked(MainAction(s, btn_key, ui), btn_key, t)
             ELSE s
       IN  IF after.raised THEN after
           ELSE [ after EXCEPT !.last_button_states =
                                 DictPut(@, btn_key, jc.buttons[btn_key] \in pressed) ]

\* The calls of check_button from the i-th on; show_favorites keeps the poll
\* waiting in the dialog, and an exception ends it.
RECURSIVE MainCheckButtons(_, _, _, _, _, _, _)
MainCheckButtons(s, i, t, pressed, numbuttons, jc, ui) ==
  IF i > Len(MainButtons) \/ s.opened \/ s.raised
  THEN s
  ELSE MainCheckButtons(
         check_button([ s EXCEPT !.next = i + 1 ], MainButtons[i], t, pressed, numbuttons,
                      jc, ui),
         i + 1, t, pressed, numbuttons, jc, ui)

\* A poll that reads the hat of every device.
MainPollAnyHat(s, hat, pressed, idx, size, t, dev, jc, ui) ==
  MainCheckButtons(
    MainKeys(IF dev # << >> THEN MainHat(s, hat, idx, size, t, jc) ELSE s,
             idx, size, t, jc),
    IF dev # << >> THEN 1 ELSE Len(MainButtons) + 1,
    t, pressed, IF dev # << >> THEN dev[1].numbuttons ELSE 0, jc, ui)

\* The poll of MainWindow from the hat block on, for the device dev.
MainPoll(s, hat, pressed, idx, size, t, dev, jc, ui) ==
  MainCheckButtons(
    MainKeys(IF dev # << >> /\ dev[1].numhats > 0 THEN MainHat(s, hat, idx, size, t, jc) ELSE s,
             idx, size, t, jc),
    IF dev # << >> THEN 1 ELSE Len(MainButtons) + 1,
    t, pressed, IF dev # << >> THEN dev[1].numbuttons ELSE 0, jc, ui)

\* MainWindow when a poll starts, or resumes at the check_button after the one
\* that opened the dialog.
MainStart(sys_name, cache_dict, rom_list, i) ==
  [ currentRow          |-> win.currentRow,
    last_hat_held       |-> win.last_hat_held,
    last_hat_held_time  |-> win.last_hat_held_time,
    last_key_held       |-> win.last_key_held,
    last_key_held_time  |-> win.last_key_held_time,
    last_button_states  |-> win.last_button_states,
    last_button_times   |-> win.last_button_times,
    moves  |-> << >>,
    combo  |-> sys_name,
    cache  |-> cache_dict,
    roms   |-> rom_list,
    calls  |-> << >>,
    filter |-> << >>,
    raised |-> FALSE,
    opened |-> FALSE,
    next   |-> i ]

\* The configuration and the filter widgets update_rom_list reads.
Widgets ==
  [ cfg |-> cfg, search_edit |-> search_edit, year_edit |-> year_edit,
    manuf_edit |-> manuf_edit, hide_clones_chk |-> hide_clones_chk ]

\* The state of MainWindow after a poll, or the rest of one, that ended in s.
MainPolled(s) ==
  /\ win' = [ f \in DOMAIN win |-> s[f] ]
  /\ systems_combo' = s.combo
  /\ rom_cache' = s.cache
  /\ roms' = s.roms
  /\ last' = IF s.calls = << >> THEN last
             ELSE [ n |-> 1 - last.n, calls |-> s.calls, filter |-> s.filter ]
  /\ pc' = IF s.raised THEN "aborted" ELSE "running"

(***************************************************************************)
(* FavoritesDialog.poll_joystick                                           *)
(***************************************************************************)
\* scroll_list(direction, 1, held_key, held_time_key) of the dialog.
FavScrollList(d, direction, k, idx, size, t, scroll_cooldown) ==
  IF direction
  THEN IF ~d.last_hat_held[k] \/ t - d.last_hat_held_time[k] >= scroll_cooldown
       THEN [ Moved(d, "hat", k, IF d.last_hat_held[k] THEN "repeat" ELSE "edge",
                    Target(k, idx, 1, size), size)
                EXCEPT !.last_hat_held[k] = TRUE, !.last_hat_held_time[k] = t ]
       ELSE d
  ELSE [ d EXCEPT !.last_hat_held[k] = FALSE ]

\* action() of a check_button of the dialog, on a list of size favorites.
FavAction(d, btn_key, size) ==
  CASE btn_key = "button_up" ->
         Moved(d, "button", btn_key, "invoke", Max(0, d.currentRow - 1), size)
    [] btn_key = "button_down" ->
         Moved(d, "button", btn_key, "invoke", Min(size - 1, d.currentRow + 1), size)
    [] btn_key = "button_select" ->
         Done(d, "button", btn_key, IF d.currentRow < 0 \/ size = 0 THEN "warning" ELSE "launch")
    [] OTHER ->
         [ Done(d, "button", btn_key, "close") EXCEPT !.closed = TRUE ]

\* check_button(btn_key, action) of the dialog.
FavCheckButton(d, btn_key, t, pressed, numbuttons, jc, size) ==
  IF jc.buttons[btn_key] < 0 \/ jc.buttons[btn_key] >= numbuttons
  THEN d
  ELSE [ (IF /\ jc.buttons[btn_key] \in pressed
             /\ ~DictGet(d.last_button_states, btn_key, FALSE)
          THEN IF t - DictGet(d.last_button_times, btn_key, 0) >= jc.button_debounce_delay
               THEN [ FavAction(d, btn_key, size)
                        EXCEPT !.last_button_times = DictPut(@, btn_key, t) ]
               ELSE d
          ELSE IF /\ jc.buttons[btn_key] \notin pressed
                  /\ DictGet(d.last_button_states, btn_key, FALSE)
               THEN [ d EXCEPT !.last_button_times = DictPut(@, btn_key, t) ]
               ELSE d)
           EXCEPT !.last_button_states = DictPut(@, btn_key, jc.buttons[btn_key] \in pressed) ]

\* The calls of check_button of the dialog from the i-th on.
RECURSIVE FavCheckButtons(_, _, _, _, _, _, _)
FavCheckButtons(d, i, t, pressed, numbuttons, jc, size) ==
  IF i > Len(FavoritesButtons)
  THEN d
  ELSE FavCheckButtons(FavCheckButton(d, FavoritesButtons[i], t, pressed, numbuttons, jc, size),
                       i + 1, t, pressed, numbuttons, jc, size)

\* The two calls of scroll_list under `if self.joystick and get_numhats() > 0`.
FavHat(d, hat, idx, size, t, jc) ==
  FavScrollList(FavScrollList(d, hat[2] = 1, "up", idx, size, t, jc.hat_scroll_cooldown),
                hat[2] = -1, "down", idx, size, t, jc.hat_scroll_cooldown)

\* The poll of the dialog from the hat block on.
FavPoll(d, hat, pressed, idx, size, t, dev, jc) ==
  FavCheckButtons(
    IF dev # << >> /\ dev[1].numhats > 0 THEN FavHat(d, hat, idx, size, t, jc) ELSE d,
    IF dev # << >> THEN 1 ELSE Len(FavoritesButtons) + 1,
    t, pressed, IF dev # << >> THEN dev[1].numbuttons ELSE 0, jc, size)

\* The dialog when a poll starts.
FavStart(dlg) ==
  [ currentRow          |-> dlg.currentRow,
    last_hat_held       |-> dlg.last_hat_held,
    last_hat_held_time  |-> dlg.last_hat_held_time,
    last_button_states  |-> dlg.last_button_states,
    last_button_times   |-> dlg.last_button_times,
    moves  |-> << >>,
    closed |-> FALSE ]

(***************************************************************************)
(* The timers, the keyboard and the mouse.  The clock advances by dt       *)
(* between two of them, up to MaxTime.                                     *)
(***************************************************************************)
\* The clock at the start of the model: a time.time() * 1000 far beyond any
\* delay of the configuration, so that a first press is beyond every delay
\* counted from the 0 of the dicts.
StartTime == 1000

\* The last time of the clock, after StartTime.
MaxTime == 300

\* The clock advances by dt.
Elapsed(dt) ==
  /\ now + dt <= StartTime + MaxTime
  /\ now' = now + dt

\* The bindings a run of check_button calls, from the first-th to the one
\* before next, has read the button of: those with an index of the device.
Read(first, next, buttons, numbuttons, jc) ==
  { buttons[i] : i \in { j \in first..(next - 1) :
                           jc.buttons[buttons[j]] \in 0..(numbuttons - 1) } }

\* What a poll saw of the buttons: the bindings in read are down or up as
\* the set pressed says, the others as seen before.
Seen(before, read, pressed, jc) ==
  [ b \in DOMAIN before |-> IF b \in read THEN jc.buttons[b] \in pressed ELSE before[b] ]

\* No button seen down yet.
NoneSeen ==
  [ b \in DOMAIN DEFAULT_CONFIG.buttons |-> FALSE ]

\* No action invoked yet.
NoneInvoked ==
  [ b \in DOMAIN DEFAULT_CONFIG.buttons |-> 0 ]

\* The bindings whose action the moves of a poll show invoked.
Invocations(moves) ==
  { moves[i].key : i \in { j \in 1..Len(moves) : moves[j].src = "button" } }

\* The times of the last invocations after a poll at t with these moves.
InvokedAt(before, moves, t) ==
  [ b \in DOMAIN before |-> IF b \in Invocations(moves) THEN t ELSE before[b] ]

\* get_numbuttons() of the device, with no button for no device.
NumButtons(dev) ==
  IF dev = << >> THEN 0 ELSE dev[1].numbuttons

\* The direction k of the position hat of the hat.
Direction(k, hat) ==
  CASE k = "up"    -> hat[2] = 1
    [] k = "down"  -> hat[2] = -1
    [] k = "left"  -> hat[1] = -1
    [] k = "right" -> hat[1] = 1

\* Whether the device has a hat the polls read.
HasHat(dev) ==
  dev # << >> /\ dev[1].numhats > 0

\* The history of an input after a poll at t that saw it held or not and
\* made the moves given; src and k name the input.
Observed(before, held, moves, src, k, t) ==
  IF ~held THEN NotHeld
  ELSE IF ~before.held THEN [ held |-> TRUE, since |-> t, repeated |-> 0 ]
  ELSE IF \E i \in 1..Len(moves) : moves[i].src = src /\ moves[i].key = k
       THEN [ before EXCEPT !.repeated = t ]
       ELSE before

\* The history of the hat after a poll.
HatObserved(before, hat, moves, dev, t) ==
  [ k \in HatKeys |-> Observed(before[k], HasHat(dev) /\ Direction(k, hat), moves, "hat", k, t) ]

\* The poll of MainWindow at t ended in s.
MainPolledAt(s, t, hat, pressed) ==
  /\ MainPolled(s)
  /\ favorites_dialog' = IF s.opened THEN << NewFavoritesDialog >> ELSE favorites_dialog
  /\ pending' = IF s.opened THEN << [ now |-> t, next |-> s.next ] >> ELSE pending
  /\ polled' = [ n |-> 1 - polled.n, view |-> "main", now |-> t, raised |-> s.raised,
                 moves |-> s.moves, resumed |-> << >>,
                 seen |-> [ polled.seen EXCEPT
                              !.main = Seen(@, Read(1, s.next, MainButtons, NumButtons(joystick),
                                                    joystick_config),
                                            pressed, joystick_config),
                              !.favorites = IF s.opened THEN NoneSeen ELSE @ ],
                 invoked |-> [ polled.invoked EXCEPT
                                 !.main = InvokedAt(@, s.moves, t),
                                 !.favorites = IF s.opened THEN NoneInvoked ELSE @ ],
                 keys |-> polled.keys,
                 input |-> [ polled.input EXCEPT
                               !.main.hat = HatObserved(@, hat, s.moves, joystick, t),
                               !.main.key = [ k \in ArrowKeys |->
                                                Observed(@[k], win.last_key_held[k], s.moves,
                                                         "key", k, t) ],
                               !.favorites.hat = IF s.opened THEN [ k \in HatKeys |-> NotHeld ]
                                                 ELSE @ ] ]

\* A timer fires in a window that is not the active window: the poll returns.
Inactive(t) ==
  /\ polled' = [ polled EXCEPT !.n = 1 - @, !.view = "inactive", !.now = t, !.raised = FALSE,
                               !.moves = << >>, !.resumed = << >> ]
  /\ UNCHANGED << win, systems_combo, rom_cache, roms, last, pc, favorites_dialog, pending >>

\* The timer of MainWindow fires: poll_joystick, with active the value of
\* self.isActiveWindow() and self.is_active, hat the position of the hat and
\* pressed the buttons that are down.  The window is not active while the
\* dialog is open.
poll_joystick(dt, active, hat, pressed) ==
  /\ pc = "running"
  /\ active => favorites_dialog = << >>
  /\ Elapsed(dt)
  /\ IF active
     THEN MainPolledAt(MainPoll(MainStart(systems_combo, rom_cache, roms, 1), hat, pressed,
                                win.currentRow, ListCount(roms), now + dt, joystick,
                                joystick_config, Widgets),
                       now + dt, hat, pressed)
     ELSE Inactive(now + dt)
  /\ UNCHANGED << fs, cfg, search_edit, year_edit, manuf_edit, hide_clones_chk, joystick,
                  joystick_config, favorites >>

\* exec() returns: the poll of MainWindow that called show_favorites goes on
\* with the check_button after it, with the now it started with.
Resumed(pressed) ==
  MainCheckButtons(
    MainStart(systems_combo, rom_cache, roms,
              IF pending = << >> THEN Len(MainButtons) + 1 ELSE pending[1].next),
    IF pending = << >> THEN Len(MainButtons) + 1 ELSE pending[1].next,
    IF pending = << >> THEN now ELSE pending[1].now,
    pressed, NumButtons(joystick), joystick_config, Widgets)

\* The dialog is closed: finished sets self.favorites_dialog = None, and the
\* poll that waited, if any, ended in tail.
Closed(tail) ==
  /\ favorites_dialog' = << >>
  /\ pending' = << >>
  /\ MainPolled(tail)

\* The poll of the dialog at t ended in d.
FavPolledAt(d, t, hat, pressed, tail) ==
  /\ IF d.closed
     THEN Closed(tail)
     ELSE /\ favorites_dialog' = << [ f \in DOMAIN favorites_dialog[1] |-> d[f] ] >>
          /\ UNCHANGED << win, systems_combo, rom_cache, roms, last, pc, pending >>
  /\ polled' = [ n |-> 1 - polled.n, view |-> "favorites", now |-> t,
                 raised |-> d.closed /\ tail.raised,
                 moves |-> d.moves, resumed |-> IF d.closed THEN tail.moves ELSE << >>,
                 seen |-> [ polled.seen EXCEPT
                              !.favorites = Seen(@, Read(1, Len(FavoritesButtons) + 1,
                                                         FavoritesButtons, NumButtons(joystick),
                                                         joystick_config),
                                                 pressed, joystick_config),
                              !.main = IF d.closed /\ pending # << >>
                                       THEN Seen(@, Read(pending[1].next, tail.next, MainButtons,
                                                         NumButtons(joystick), joystick_config),
                                                 pressed, joystick_config)
                                       ELSE @ ],
                 invoked |-> [ polled.invoked EXCEPT
                                 !.favorites = InvokedAt(@, d.moves, t),
                                 !.main = IF d.closed THEN InvokedAt(@, tail.moves, t)
                                          ELSE @ ],
                 keys |-> polled.keys,
                 input |-> [ polled.input EXCEPT
                               !.favorites.hat = HatObserved(@, hat, d.moves, joystick, t) ] ]

\* The timer of the dialog fires: FavoritesDialog.poll_joystick.
favorites_poll_joystick(dt, active, hat, pressed) ==
  /\ pc = "running"
  /\ favorites_dialog # << >>
  /\ Elapsed(dt)
  /\ IF active
     THEN FavPolledAt(FavPoll(FavStart(favorites_dialog[1]), hat, pressed,
                              favorites_dialog[1].currentRow, Len(favorites), now + dt,
                              joystick, joystick_config),
                      now + dt, hat, pressed, Resumed(pressed))
     ELSE Inactive(now + dt)
  /\ UNCHANGED << fs, cfg, search_edit, year_edit, manuf_edit, hide_clones_chk, joystick,
                  joystick_config, favorites >>

\* The user clicks "Favorites": show_favorites, which opens the dialog.
show_favorites ==
  /\ pc = "running"
  /\ favorites_dialog = << >>
  /\ favorites_dialog' = << NewFavoritesDialog >>
  /\ polled' = [ polled EXCEPT !.seen.favorites = NoneSeen,
                               !.invoked.favorites = NoneInvoked,
                               !.input.favorites.hat = [ k \in HatKeys |-> NotHeld ] ]
  /\ UNCHANGED << fs, cfg, systems_combo, search_edit, year_edit, manuf_edit, hide_clones_chk,
                  rom_cache, roms, last, pc, now, joystick, joystick_config, favorites, win,
                  pending >>

\* The user closes the dialog with the Escape key or the close button, while
\* the buttons in pressed are down.
close_favorites(pressed) ==
  /\ pc = "running"
  /\ favorites_dialog # << >>
  /\ Closed(Resumed(pressed))
  /\ polled' = [ n |-> 1 - polled.n, view |-> "closed", now |-> now,
                 raised |-> Resumed(pressed).raised,
                 moves |-> << >>, resumed |-> Resumed(pressed).moves,
                 seen |-> [ polled.seen EXCEPT
                              !.main = IF pending # << >>
                                       THEN Seen(@, Read(pending[1].next, Resumed(pressed).next,
                                                         MainButtons, NumButtons(joystick),
                                                         joystick_config),
                                                 pressed, joystick_config)
                                       ELSE @ ],
                 invoked |-> [ polled.invoked EXCEPT
                                 !.main = InvokedAt(@, Resumed(pressed).moves, now) ],
                 keys |-> polled.keys,
                 input |-> polled.input ]
  /\ UNCHANGED << fs, cfg, search_edit, year_edit, manuf_edit, hide_clones_chk, now, joystick,
                  joystick_config, favorites >>

\* eventFilter on a KeyPress of the Left or the Right key on roms_list; the
\* keyboard repeats the event while the key is held.
KeyPress(k, dt) ==
  /\ pc = "running"
  /\ favorites_dialog = << >>
  /\ Elapsed(dt)
  /\ win' = [ win EXCEPT !.last_key_held[k] = TRUE, !.last_key_held_time[k] = now + dt ]
  /\ polled' = [ polled EXCEPT !.n = 1 - @, !.view = "key", !.now = now + dt,
                               !.raised = FALSE, !.moves = << >>, !.resumed = << >>,
                               !.keys[k] = TRUE ]
  /\ UNCHANGED << fs, cfg, systems_combo, search_edit, year_edit, manuf_edit, hide_clones_chk,
                  rom_cache, roms, last, pc, joystick, joystick_config, favorites,
                  favorites_dialog, pending >>

\* eventFilter on a KeyRelease of the Left or the Right key on roms_list.
KeyRelease(k, dt) ==
  /\ pc = "running"
  /\ favorites_dialog = << >>
  /\ polled.keys[k]
  /\ Elapsed(dt)
  /\ win' = [ win EXCEPT !.last_key_held[k] = FALSE ]
  /\ polled' = [ polled EXCEPT !.n = 1 - @, !.view = "key", !.now = now + dt,
                               !.raised = FALSE, !.moves = << >>, !.resumed = << >>,
                               !.keys[k] = FALSE ]
  /\ UNCHANGED << fs, cfg, systems_combo, search_edit, year_edit, manuf_edit, hide_clones_chk,
                  rom_cache, roms, last, pc, joystick, joystick_config, favorites,
                  favorites_dialog, pending >>

\* The user releases the Left or the Right key after roms_list lost the
\* keyboard focus or the window was deactivated while the key was down: the
\* KeyRelease is not an event of roms_list, and eventFilter changes nothing.
KeyReleaseElsewhere(k, dt) ==
  /\ pc = "running"
  /\ polled.keys[k]
  /\ Elapsed(dt)
  /\ polled' = [ polled EXCEPT !.n = 1 - @, !.view = "key", !.now = now + dt,
                               !.raised = FALSE, !.moves = << >>, !.resumed = << >>,
                               !.keys[k] = FALSE ]
  /\ UNCHANGED << fs, cfg, systems_combo, search_edit, year_edit, manuf_edit, hide_clones_chk,
                  rom_cache, roms, last, pc, joystick, joystick_config, favorites, win,
                  favorites_dialog, pending >>

(***************************************************************************)
(* The program at self.rom_cache = {} of MainWindow.__init__: the combo box *)
(* shows the first system, the fields are empty.                           *)
(***************************************************************************)
Constructed ==
  /\ systems_combo = "Arcade"
  /\ search_edit = << >>
  /\ year_edit = << >>
  /\ manuf_edit = << >>
  /\ rom_cache = EmptyDict
  /\ roms = << >>
  /\ last = NoCall
  /\ pc = "init"
  /\ steps = 0
  /\ now = StartTime
  /\ joystick = << >>
  /\ joystick_config = DEFAULT_CONFIG
  /\ favorites = << >>
  /\ win = NewMainWindow
  /\ favorites_dialog = << >>
  /\ pending = << >>
  /\ polled = NotPolled

(***************************************************************************)
(* Spec, the session: the program starts on a small disk; the user selects *)
(* systems, toggles "Hide Clones" and saves settings while files appear    *)
(* and disappear on the disk.                                              *)
(***************************************************************************)
Init ==
  /\ fs \in [ dir    : { d \in DirStates : Len(d.entries) <= 1 },
              dat    : { "full" },
              titles : [ TitleFiles -> { "table" } ] ]
  /\ cfg = [ roms_dirs |-> [ s \in Systems |-> RomsPath ],
             xml_dat_files |-> [ s \in Systems |-> DatPath ] ]
  /\ hide_clones_chk = FALSE
  /\ Constructed

\* One more step of the session.
Step ==
  /\ steps < MaxSteps
  /\ steps' = steps + 1

Next ==
  \/ Step /\ Startup
  \/ Step /\ \E s \in Systems : SelectSystem(s)
  \/ Step /\ toggle_hide_clones
  \/ Step /\ \E s \in Systems, d \in RomsDirSettings, x \in XmlDatSettings :
               show_settings(s, d, x)
  \/ Step /\ \E e \in EntryNames, at \in 1..MaxFiles : AddFile(e, at)
  \/ Step /\ \E at \in 1..MaxFiles : RemoveFile(at)
  \/ Step /\ \E k \in DirKinds : ReplaceDir(k)
  \/ Step /\ \E d \in DatStates : WriteDat(d)
  \/ Step /\ \E f \in TitleFiles, d \in TitleStates : WriteTitles(f, d)

Spec ==
  Init /\ [][Next]_vars

(***************************************************************************)
(* SpecBuild, the catalog build: the program starts on any disk, with any  *)
(* configuration, and the user goes through the systems.  A build reads    *)
(* the settings and the title table of its own system only, so the two     *)
(* systems have the same settings and their title tables the same state.   *)
(***************************************************************************)
InitBuild ==
  /\ fs \in [ dir    : DirStates,
              dat    : DatStates,
              titles : { [ f \in TitleFiles |-> d ] : d \in TitleStates } ]
  /\ cfg \in { [ roms_dirs |-> [ s \in Systems |-> d ],
                 xml_dat_files |-> [ s \in Systems |-> x ] ] :
               d \in RomsDirSettings, x \in XmlDatSettings }
  /\ hide_clones_chk = FALSE
  /\ Constructed

NextBuild ==
  \/ Startup /\ UNCHANGED steps
  \/ (\E s \in Systems : SelectSystem(s)) /\ UNCHANGED steps

SpecBuild ==
  InitBuild /\ [][NextBuild]_vars

(***************************************************************************)
(* SpecFilter and SpecEdit: the program starts on a disk with every entry  *)
(* and the user goes through the systems.  In SpecFilter filter_rom_list   *)
(* is called on the built lists with any arguments; in SpecEdit the user   *)
(* edits the filters, and update_rom_list calls it.                        *)
(***************************************************************************)
InitFilter ==
  /\ fs \in [ dir    : { [ kind |-> "dir",
                           entries |-> << sf2ce_zip, neogeo_cue, cd_dir, kof_cue,
                                          neocdz_7z, readme_txt >> ] },
              dat    : { "full", "missing" },
              titles : [ TitleFiles -> { "table" } ] ]
  /\ cfg = [ roms_dirs |-> [ s \in Systems |-> RomsPath ],
             xml_dat_files |-> [ s \in Systems |-> DatPath ] ]
  /\ hide_clones_chk \in BOOLEAN
  /\ Constructed

NextFilter ==
  \/ Startup /\ UNCHANGED steps
  \/ (\E s \in Systems : SelectSystem(s)) /\ UNCHANGED steps
  \/ (\E key \in DOMAIN rom_cache, search \in SearchTexts, year_filter \in YearTexts,
         manuf_filter \in ManufTexts, hide_clones \in BOOLEAN :
         CallFilter(key, search, year_filter, manuf_filter, hide_clones)) /\ UNCHANGED steps

SpecFilter ==
  InitFilter /\ [][NextFilter]_vars

NextEdit ==
  \/ Startup /\ UNCHANGED steps
  \/ (\E s \in Systems : SelectSystem(s)) /\ UNCHANGED steps
  \/ (\E text \in SearchTexts : EditSearch(text)) /\ UNCHANGED steps
  \/ (\E text \in YearTexts : EditYear(text)) /\ UNCHANGED steps
  \/ (\E text \in ManufTexts : EditManuf(text)) /\ UNCHANGED steps
  \/ toggle_hide_clones /\ UNCHANGED steps

SpecEdit ==
  InitFilter /\ [][NextEdit]_vars

(***************************************************************************)
(* SpecButtons, the buttons of the pad: the program starts with a pad, or  *)
(* without one, and its two timers fire while the user presses and         *)
(* releases buttons, opens and closes the favorites.                       *)
(***************************************************************************)
\* The times between two timer or keyboard events.
Delays ==
  { 50, 100 }

\* The pads: none, a pad with a hat and all the buttons of DEFAULT_CONFIG, and
\* a pad with no hat and four buttons.
Devices ==
  { << >>, << [ numhats |-> 1, numbuttons |-> 8 ] >>, << [ numhats |-> 0, numbuttons |-> 4 ] >> }

\* The sets of buttons down at a poll.
ButtonSets ==
  { {}, { 2 }, { 7 }, { 4 } }

\* The configurations of the pad: DEFAULT_CONFIG, and one with no button to
\* select.
ButtonConfigs ==
  { DEFAULT_CONFIG, [ DEFAULT_CONFIG EXCEPT !.buttons["button_select"] = -1 ] }

\* The favorites of the configuration: none, or two ROMs.
FavoriteLists ==
  { << >>, << PyList(<< "Arcade", sf2ce_zip, "a", "1992", "Capcom" >>),
              PyList(<< "Arcade", kof_cue, "B", "1994", "SNK" >>) >> }

\* The centre of the hat.
Centered ==
  << 0, 0 >>

InitButtons ==
  /\ fs = [ dir    |-> [ kind |-> "dir", entries |-> << sf2ce_zip, kof_cue >> ],
            dat    |-> "full",
            titles |-> [ f \in TitleFiles |-> "table" ] ]
  /\ cfg = [ roms_dirs |-> [ s \in Systems |-> RomsPath ],
             xml_dat_files |-> [ s \in Systems |-> DatPath ] ]
  /\ hide_clones_chk = FALSE
  /\ systems_combo = "Arcade"
  /\ search_edit = << >>
  /\ year_edit = << >>
  /\ manuf_edit = << >>
  /\ rom_cache = EmptyDict
  /\ roms = << >>
  /\ last = NoCall
  /\ pc = "init"
  /\ steps = 0
  /\ now = StartTime
  /\ joystick = << [ numhats |-> 1, numbuttons |-> 8 ] >>
  /\ joystick_config = DEFAULT_CONFIG
  /\ favorites \in FavoriteLists
  /\ win = NewMainWindow
  /\ favorites_dialog = << >>
  /\ pending = << >>
  /\ polled = NotPolled

NextButtons ==
  \/ Startup /\ UNCHANGED steps
  \/ (\E dt \in Delays, active \in BOOLEAN, pressed \in ButtonSets :
        poll_joystick(dt, active, Centered, pressed)) /\ UNCHANGED steps
  \/ (\E dt \in Delays, active \in BOOLEAN, pressed \in ButtonSets :
        favorites_poll_joystick(dt, active, Centered, pressed)) /\ UNCHANGED steps
  \/ show_favorites /\ UNCHANGED steps
  \/ (\E pressed \in ButtonSets : close_favorites(pressed)) /\ UNCHANGED steps

SpecButtons ==
  InitButtons /\ [][NextButtons]_vars

(***************************************************************************)
(* SpecScroll, the left and right of the hat and of the keyboard: the      *)
(* program runs on a directory of fifty ROMs, with no metadata file, and   *)
(* the user has clicked a row.  With a pad the user holds and releases the *)
(* hat, without one the arrow keys, while the timer fires.                 *)
(***************************************************************************)
\* The name of the i-th file of a directory of numbered ROMs.
NumberedRom(i) ==
  << Digits[(i \div 10) + 1], Digits[(i % 10) + 1], ".", "z", "i", "p" >>

\* A disk with a directory of n numbered ROMs and nothing else.
NumberedDisk(n) ==
  [ dir    |-> [ kind |-> "dir", entries |-> [ i \in 1..n |-> NumberedRom(i) ] ],
    dat    |-> "missing",
    titles |-> [ f \in TitleFiles |-> "missing" ] ]

\* The list get_rom_list_cached builds from that disk for a system with no
\* metadata file: the files in the order of their names, each with its stem
\* for title.
NumberedCatalog(n) ==
  [ i \in 1..n |-> [ rom |-> NumberedRom(i), title |-> PathStem(NumberedRom(i)),
                     year |-> << >>, manuf |-> << >>, is_clone |-> FALSE ] ]

\* The result of the update_rom_list of MainWindow.__init__ when the build
\* gives the list all_roms.
FirstUpdate(all_roms) ==
  Filtered([ raised |-> FALSE, ret |-> all_roms,
             cache |-> DictPut(EmptyDict, << RomsPath, "Arcade", "" >>, all_roms),
             io |-> { "titles", "dir" } ],
           << RomsPath, "Arcade", "" >>, << >>, << >>, << >>, FALSE)

\* The user clicks the item of a row of roms_list, which becomes the current
\* row.
SelectRow(row) ==
  /\ pc = "running"
  /\ favorites_dialog = << >>
  /\ row \in 0..(ListCount(roms) - 1)
  /\ row # win.currentRow
  /\ win' = [ win EXCEPT !.currentRow = row ]
  /\ polled' = [ polled EXCEPT !.n = 1 - @, !.view = "click", !.raised = FALSE,
                               !.moves = << >>, !.resumed = << >> ]
  /\ UNCHANGED << fs, cfg, systems_combo, search_edit, year_edit, manuf_edit, hide_clones_chk,
                  rom_cache, roms, last, pc, now, joystick, joystick_config, favorites,
                  favorites_dialog, pending >>

\* The most events (timer and keyboard events, clicks) of one behaviour of a
\* model of the hat and of the keys.
MaxEvents == 5

\* One more event.
Event ==
  /\ steps < MaxEvents
  /\ steps' = steps + 1

\* The times between two timer events and before a keyboard event.
TickDelays ==
  { 10, 30, 260 }

KeyDelays ==
  { 0, 10 }

\* The positions of the hat to the left and to the right.
HatLeftRight ==
  { Centered, << -1, 0 >>, << 1, 0 >> }

\* hat_fastest_delay, in milliseconds.
FastestDelays ==
  { 20, 200, 250 }

\* A pad with a hat and the buttons of DEFAULT_CONFIG.
Pad ==
  << [ numhats |-> 1, numbuttons |-> 8 ] >>

\* The program after MainWindow.__init__, whose update_rom_list had the
\* result r, with the pad dev and the configuration jc, and the user has
\* clicked the row given.
Started(r, dev, jc, row) ==
  /\ hide_clones_chk = FALSE
  /\ systems_combo = "Arcade"
  /\ search_edit = << >>
  /\ year_edit = << >>
  /\ manuf_edit = << >>
  /\ rom_cache = r.cache
  /\ roms = r.filter.ret
  /\ last = [ n |-> 1, calls |-> r.calls, filter |-> << r.filter >> ]
  /\ pc = "running"
  /\ steps = 0
  /\ now = StartTime
  /\ joystick = dev
  /\ joystick_config = jc
  /\ win = [ NewMainWindow EXCEPT !.currentRow = row ]
  /\ favorites_dialog = << >>
  /\ pending = << >>
  /\ polled = NotPolled

\* The program runs on a disk of n numbered ROMs, with a ROM directory and
\* no metadata file in its configuration.
Running(n, dev, jc, row) ==
  /\ fs = NumberedDisk(n)
  /\ cfg = [ roms_dirs |-> [ s \in Systems |-> RomsPath ],
             xml_dat_files |-> [ s \in Systems |-> "" ] ]
  /\ Started(FirstUpdate(NumberedCatalog(n)), dev, jc, row)

InitScroll ==
  /\ \E d \in FastestDelays, dev \in { << >>, Pad }, row \in { 0, 45 } :
       Running(50, dev, [ DEFAULT_CONFIG EXCEPT !.hat_fastest_delay = d ], row)
  /\ favorites = << >>

NextScroll ==
  \/ Event /\ joystick # << >>
           /\ \E dt \in TickDelays, hat \in HatLeftRight : poll_joystick(dt, TRUE, hat, {})
  \/ Event /\ joystick = << >>
           /\ \E dt \in TickDelays : poll_joystick(dt, TRUE, Centered, {})
  \/ Event /\ joystick = << >> /\ \E k \in ArrowKeys, dt \in KeyDelays : KeyPress(k, dt)
  \/ Event /\ joystick = << >> /\ \E k \in ArrowKeys, dt \in KeyDelays : KeyRelease(k, dt)

SpecScroll ==
  InitScroll /\ [][NextScroll]_vars

(***************************************************************************)
(* SpecAxis, the up and down of the hat: the program runs on a directory   *)
(* of ten ROMs, all of them favorites; the user holds and releases the hat *)
(* in the main window and in the favorites dialog while the timers fire.   *)
(***************************************************************************)
\* The user clicks the item of a row of favorites_list.
SelectFavorite(row) ==
  /\ pc = "running"
  /\ favorites_dialog # << >>
  /\ row \in 0..(Len(favorites) - 1)
  /\ row # favorites_dialog[1].currentRow
  /\ favorites_dialog' = << [ favorites_dialog[1] EXCEPT !.currentRow = row ] >>
  /\ polled' = [ polled EXCEPT !.n = 1 - @, !.view = "click", !.raised = FALSE,
                               !.moves = << >>, !.resumed = << >> ]
  /\ UNCHANGED << fs, cfg, systems_combo, search_edit, year_edit, manuf_edit, hide_clones_chk,
                  rom_cache, roms, last, pc, now, joystick, joystick_config, favorites, win,
                  pending >>

\* The favorites add_to_favorites makes of the ROMs of a list.
FavoritesOf(rom_list) ==
  [ i \in 1..Len(rom_list) |->
      PyTuple(<< "Arcade", rom_list[i].rom, rom_list[i].title, rom_list[i].year,
                 rom_list[i].manuf >>) ]

\* The times between two timer events.
AxisDelays ==
  { 10, 70 }

\* The positions of the hat up and down.
HatUpDown ==
  { Centered, << 0, 1 >>, << 0, -1 >> }

InitAxis ==
  /\ \E row \in { 0, 5 } : Running(10, Pad, DEFAULT_CONFIG, row)
  /\ favorites = FavoritesOf(NumberedCatalog(10))

NextAxis ==
  \/ Event /\ \E dt \in AxisDelays, hat \in HatUpDown : poll_joystick(dt, TRUE, hat, {})
  \/ Event /\ \E dt \in AxisDelays, hat \in HatUpDown :
                favorites_poll_joystick(dt, TRUE, hat, {})
  \/ Event /\ show_favorites
  \/ Event /\ close_favorites({})
  \/ Event /\ SelectFavorite(5)

SpecAxis ==
  InitAxis /\ [][NextAxis]_vars

(***************************************************************************)
(* SpecDevices, the pads and their configurations: the program runs with   *)
(* no pad, with a pad that has a hat and eight buttons, or with one that   *)
(* has no hat and four buttons, and with a configuration that binds all    *)
(* the actions or one that binds no button to select.                      *)
(***************************************************************************)
\* The times between two timer events.
DeviceDelays ==
  { 50, 250 }

\* The positions of the hat: centred and up.
HatUp ==
  { Centered, << 0, 1 >> }

\* The sets of buttons down at a poll: none, or the buttons 0, 2 and 7.
DeviceButtonSets ==
  { {}, { 0, 2, 7 } }

InitDevices ==
  /\ \E dev \in Devices, jc \in ButtonConfigs : Running(3, dev, jc, 1)
  /\ favorites = FavoritesOf(NumberedCatalog(3))

NextDevices ==
  \/ Event /\ \E dt \in DeviceDelays, hat \in HatUp, pressed \in DeviceButtonSets :
                poll_joystick(dt, TRUE, hat, pressed)
  \/ Event /\ \E dt \in DeviceDelays, hat \in HatUp, pressed \in DeviceButtonSets :
                favorites_poll_joystick(dt, TRUE, hat, pressed)
  \/ Event /\ show_favorites
  \/ Event /\ close_favorites({})
  \/ Event /\ \E k \in ArrowKeys : KeyPress(k, 0)

SpecDevices ==
  InitDevices /\ [][NextDevices]_vars

(***************************************************************************)
(* SpecKeys, the arrow keys and the focus: the program runs without a pad   *)
(* on a directory of fifty ROMs; the user presses and releases the Left and *)
(* Right keys, on roms_list or after the focus went elsewhere, while the    *)
(* timer fires in the active or the deactivated window.                     *)
(***************************************************************************)
\* The time between two events.
KeysDelays ==
  { 30 }

InitKeys ==
  /\ \E row \in { 0, 45 } : Running(50, << >>, DEFAULT_CONFIG, row)
  /\ favorites = << >>

NextKeys ==
  \/ Event /\ \E dt \in KeysDelays, active \in BOOLEAN : poll_joystick(dt, active, Centered, {})
  \/ Event /\ \E k \in ArrowKeys, dt \in KeysDelays : KeyPress(k, dt)
  \/ Event /\ \E k \in ArrowKeys, dt \in KeysDelays : KeyRelease(k, dt)
  \/ Event /\ \E k \in ArrowKeys, dt \in KeysDelays : KeyReleaseElsewhere(k, dt)

SpecKeys ==
  InitKeys /\ [][NextKeys]_vars

(***************************************************************************)
(* SpecMoves, several inputs at one poll: the program runs with a pad on a  *)
(* directory of fifty ROMs; the user holds the hat in a diagonal or along   *)
(* one axis, and the Right key, while the timer fires.                      *)
(***************************************************************************)
\* The times between two events.
MovesDelays ==
  { 30, 100 }

\* The positions of the hat: centred, up, right, up and right.
HatDiagonals ==
  { Centered, << 0, 1 >>, << 1, 0 >>, << 1, 1 >> }

InitMoves ==
  /\ Running(50, Pad, DEFAULT_CONFIG, 5)
  /\ favorites = << >>

NextMoves ==
  \/ Event /\ \E dt \in MovesDelays, hat \in HatDiagonals : poll_joystick(dt, TRUE, hat, {})
  \/ Event /\ \E dt \in MovesDelays : KeyPress("right", dt)
  \/ Event /\ \E dt \in MovesDelays : KeyRelease("right", dt)

SpecMoves ==
  InitMoves /\ [][NextMoves]_vars

(***************************************************************************)
(* SpecFavorites, the favorites and config.json: the program runs on a     *)
(* directory of three ROMs; the user adds ROMs to the favorites, removes   *)
(* favorites in the dialog, and closes and starts the program again.       *)
(***************************************************************************)
\* add_to_favorites(idx), from "Add to Favorites" of the context menu of
\* roms_list on the row idx; save_config writes the favorites to config.json.
add_to_favorites(idx) ==
  /\ pc = "running"
  /\ favorites_dialog = << >>
  /\ idx \in 0..(Len(roms) - 1)
  /\ favorites' =
       IF PyIn(PyTuple(<< systems_combo, roms[idx + 1].rom, roms[idx + 1].title,
                          roms[idx + 1].year, roms[idx + 1].manuf >>), favorites)
       THEN favorites
       ELSE Append(favorites,
                   PyTuple(<< systems_combo, roms[idx + 1].rom, roms[idx + 1].title,
                              roms[idx + 1].year, roms[idx + 1].manuf >>))
  /\ win' = [ win EXCEPT !.currentRow = idx ]
  /\ polled' = [ polled EXCEPT !.n = 1 - @, !.view = "add", !.raised = FALSE,
                               !.moves = << >>, !.resumed = << >> ]
  /\ UNCHANGED << fs, cfg, systems_combo, search_edit, year_edit, manuf_edit, hide_clones_chk,
                  rom_cache, roms, last, pc, now, joystick, joystick_config,
                  favorites_dialog, pending >>

\* remove_selected_favorite(idx), from "Remove from Favorites" of the context
\* menu of favorites_list on the row idx: pop, save_config and
\* update_favorites_list, which clears and fills favorites_list.
remove_selected_favorite(idx) ==
  /\ pc = "running"
  /\ favorites_dialog # << >>
  /\ idx \in 0..(Len(favorites) - 1)
  /\ favorites' = [ i \in 1..(Len(favorites) - 1) |->
                      IF i <= idx THEN favorites[i] ELSE favorites[i + 1] ]
  /\ favorites_dialog' = << [ favorites_dialog[1] EXCEPT !.currentRow = -1 ] >>
  /\ polled' = [ polled EXCEPT !.n = 1 - @, !.view = "remove", !.raised = FALSE,
                               !.moves = << >>, !.resumed = << >> ]
  /\ UNCHANGED << fs, cfg, systems_combo, search_edit, year_edit, manuf_edit, hide_clones_chk,
                  rom_cache, roms, last, pc, now, joystick, joystick_config, win, pending >>

\* The user closes the program and starts it again: load_config reads the
\* favorites save_config wrote last, and MainWindow.__init__ runs, whose
\* update_rom_list has the result r.
Restart(r) ==
  /\ pc = "running"
  /\ favorites_dialog = << >>
  /\ favorites' = json_load(json_dump(favorites))
  /\ systems_combo' = "Arcade"
  /\ search_edit' = << >>
  /\ year_edit' = << >>
  /\ manuf_edit' = << >>
  /\ rom_cache' = r.cache
  /\ roms' = r.filter.ret
  /\ last' = [ n |-> 1 - last.n, calls |-> r.calls, filter |-> << r.filter >> ]
  /\ win' = NewMainWindow
  /\ polled' = [ NotPolled EXCEPT !.n = 1 - polled.n, !.view = "restart" ]
  /\ UNCHANGED << fs, cfg, hide_clones_chk, pc, now, joystick, joystick_config,
                  favorites_dialog, pending >>

\* The ROMs of the directory of the model.
FavoriteRoms == 3

InitFavorites ==
  /\ Running(FavoriteRoms, << >>, DEFAULT_CONFIG, 0)
  /\ favorites = << >>

NextFavorites ==
  \/ Event /\ \E idx \in 0..(FavoriteRoms - 1) : add_to_favorites(idx)
  \/ Event /\ \E idx \in 0..(FavoriteRoms - 1) : remove_selected_favorite(idx)
  \/ Event /\ Restart(FirstUpdate(NumberedCatalog(FavoriteRoms)))
  \/ Event /\ show_favorites
  \/ Event /\ close_favorites({})

SpecFavorites ==
  InitFavorites /\ [][NextFavorites]_vars

(***************************************************************************)
(* The catalog a key stands for.                                           *)
(***************************************************************************)
\* The outcome of get_rom_list_cached for the key on an empty cache: a build
\* from the disk as it is now.
FreshBuild(key) ==
  get_rom_list_cached(rom_titles_file_of[key[2]], key[1], key[2], key[3], EmptyDict)

\* The calls of get_rom_list_cached the last handler made.
LastCalls ==
  { last.calls[i] : i \in 1..Len(last.calls) }

\* C1: stale data under a fixed key is impossible.  In every reachable state
\* and for every key of the cache, the list get_rom_list_cached returns for
\* the key (the cached one) is the list a fresh build gives from the ROM
\* directory, the title table and the metadata file as they are now.
C1_NoStaleData ==
  \A key \in DOMAIN rom_cache :
    ~FreshBuild(key).raised => rom_cache[key] = FreshBuild(key).ret

\* C2: a call of get_rom_list_cached with a key that is in the cache, from an
\* earlier call of the session or of the same handler, does not raise, returns
\* the list the cache holds for the key (the empty list too), reads neither
\* the title table nor the metadata file nor the directory, and no call
\* changes a list the cache holds.
C2_CachedCallReturnsStoredList ==
  [][ /\ \A key \in DOMAIN rom_cache :
           key \in DOMAIN rom_cache' /\ rom_cache'[key] = rom_cache[key]
      /\ last'.n # last.n =>
           \A i \in 1..Len(last'.calls) :
             (\/ last'.calls[i].key \in DOMAIN rom_cache
              \/ \E j \in 1..(i - 1) : /\ last'.calls[j].key = last'.calls[i].key
                                       /\ ~last'.calls[j].raised)
             => /\ ~last'.calls[i].raised
                /\ last'.calls[i].io = {}
                /\ last'.calls[i].ret = rom_cache'[last'.calls[i].key] ]_vars

\* C2, its case: a call found the empty list in the cache and returned it.
C2_Witness ==
  \E c \in LastCalls : ~c.raised /\ c.io = {} /\ c.ret = << >> /\ rom_cache[c.key] = << >>


(***************************************************************************)
(* What a build with a key reads.  In SpecBuild the disk does not change,  *)
(* so the lists of the cache were built from the disk of the state.        *)
(***************************************************************************)
\* The metadata index of the build: meta of get_rom_list_cached.
MetaOf(key) ==
  IF key[3] # "" THEN parse_dat_metadata(key[3]) ELSE EmptyDict

\* The title table of the build: rom_titles of get_rom_list_cached.
TitlesOf(key) ==
  load_rom_titles(rom_titles_file_of[key[2]]).value

\* The candidate files of the build, in the order of enumeration.
CandidatesOf(key) ==
  IF NoRomsDir(key[1]) THEN << >> ELSE ListRoms(key[2]).roms

\* The records of the metadata file of the key, when the file is there and
\* parses.
RecordsOf(key) ==
  IF key[3] # "" /\ PathExists(key[3]) /\ fs.dat \in DOMAIN DatDocuments
  THEN { DatDocuments[fs.dat][i] : i \in 1..Len(DatDocuments[fs.dat]) }
  ELSE {}

\* The lower-cased stem of a file.
StemKey(rom) ==
  Lower(PathStem(rom))

\* The elements of a list.
Entries(list) ==
  { list[i] : i \in 1..Len(list) }

\* The place of a file in a list of files.
PlaceOf(files, rom) ==
  CHOOSE i \in 1..Len(files) : files[i] = rom

\* C3, as amended: in every list built for a standard system with a
\* metadata index that is not empty, every entry's lower-cased stem is in the
\* index (a candidate absent from it is excluded); in every list built for
\* "SNK Neo-Geo CD", every candidate whose lower-cased stem is neither in the
\* index nor in ROM_HIDE_LIST is an entry, with the title of the title table
\* for the stem, or the stem.
C3_MergePrecedence ==
  \A key \in DOMAIN rom_cache :
    IF key[2] = "SNK Neo-Geo CD"
    THEN \A rom \in Entries(CandidatesOf(key)) :
           StemKey(rom) \notin DOMAIN MetaOf(key) /\ StemKey(rom) \notin ROM_HIDE_LIST
           => \E e \in Entries(rom_cache[key]) :
                /\ e.rom = rom
                /\ e.title = DictGet(TitlesOf(key), StemKey(rom), PathStem(rom))
    ELSE DOMAIN MetaOf(key) # {}
         => \A e \in Entries(rom_cache[key]) : StemKey(e.rom) \in DOMAIN MetaOf(key)

\* C3, its case: with an index that is not empty, a list built for the
\* standard system leaves out a candidate that is in neither the index nor
\* ROM_HIDE_LIST, and the list built for "SNK Neo-Geo CD" has such a candidate.
C3_Witness ==
  /\ \E key \in DOMAIN rom_cache :
       /\ key[2] = "Arcade"
       /\ DOMAIN MetaOf(key) # {}
       /\ \E rom \in Entries(CandidatesOf(key)) :
            /\ StemKey(rom) \notin DOMAIN MetaOf(key) \cup ROM_HIDE_LIST
            /\ \A e \in Entries(rom_cache[key]) : e.rom # rom
  /\ \E key \in DOMAIN rom_cache :
       /\ key[2] = "SNK Neo-Geo CD"
       /\ DOMAIN MetaOf(key) # {}
       /\ \E e \in Entries(rom_cache[key]) : StemKey(e.rom) \notin DOMAIN MetaOf(key)

\* C3, as stated: whenever a metadata file is given to a build for a standard
\* system, every candidate whose lower-cased stem is not the name of a record
\* of the file is excluded from the list; for "SNK Neo-Geo CD" every such
\* candidate is in the list, with the title of the title table, or its stem.
C3_MergePrecedenceAsStated ==
  \A key \in DOMAIN rom_cache :
    RecordsOf(key) # {} =>
      IF key[2] = "SNK Neo-Geo CD"
      THEN \A rom \in Entries(CandidatesOf(key)) :
             (\A r \in RecordsOf(key) : Lower(EntryName(r)) # StemKey(rom))
             => \E e \in Entries(rom_cache[key]) :
                  /\ e.rom = rom
                  /\ e.title = DictGet(TitlesOf(key), StemKey(rom), PathStem(rom))
      ELSE \A e \in Entries(rom_cache[key]) :
             \E r \in RecordsOf(key) : Lower(EntryName(r)) = StemKey(e.rom)

TitlesFail(key) ==
  fs.titles[rom_titles_file_of[key[2]]] \in { "missing", "unreadable" }

DatFails(key) ==
  key[3] # "" /\ fs.dat \in { "missing", "unreadable", "malformed" }

\* The ROM directory of the key is unset, missing, or may not be listed.
RomsDirFails(key) ==
  key[1] = "" \/ fs.dir.kind \in { "missing", "file", "noperm" }

\* The list of a build with the key from the title table and the index given.
BuiltFrom(key, rom_titles, meta) ==
  Sorted(RomList(CandidatesOf(key), 1, key[2], meta, rom_titles), 1, << >>)

\* C5: a build whose title table or metadata file is missing, unreadable or
\* malformed does not raise: it returns, and caches, the list built from the
\* directory and the other source, the failing source counting as empty.
C5_SourceFailureNotFatal ==
  \A c \in LastCalls :
    c.io # {} /\ ~RomsDirFails(c.key) /\ (TitlesFail(c.key) \/ DatFails(c.key))
    => /\ ~c.raised
       /\ c.ret = BuiltFrom(c.key,
                            IF TitlesFail(c.key) THEN EmptyDict ELSE TitlesOf(c.key),
                            IF DatFails(c.key) THEN EmptyDict ELSE MetaOf(c.key))
       /\ c.key \in DOMAIN rom_cache
       /\ rom_cache[c.key] = c.ret

\* C6: a build whose roms_dir is unset, does not exist, or exists and cannot
\* be listed raises nothing, returns the empty list and stores it in the cache
\* under the key.
C6_RomsDirFailureNotFatal ==
  \A c \in LastCalls :
    c.io # {} /\ RomsDirFails(c.key) /\ fs.titles[rom_titles_file_of[c.key[2]]] # "unreadable"
    => /\ ~c.raised
       /\ c.ret = << >>
       /\ c.key \in DOMAIN rom_cache
       /\ rom_cache[c.key] = << >>

\* C7: in every built list the lower-cased titles of adjacent entries are in
\* order, and entries with the same lower-cased title are in the order their
\* files were enumerated in.
C7_SortedStable ==
  \A key \in DOMAIN rom_cache :
    /\ \A i \in 1..(Len(rom_cache[key]) - 1) :
         StrLeq(Lower(rom_cache[key][i].title), Lower(rom_cache[key][i + 1].title))
    /\ \A i, j \in 1..Len(rom_cache[key]) :
         i < j /\ Lower(rom_cache[key][i].title) = Lower(rom_cache[key][j].title)
         => PlaceOf(CandidatesOf(key), rom_cache[key][i].rom)
              < PlaceOf(CandidatesOf(key), rom_cache[key][j].rom)

\* C7, its case: a built list has two entries whose titles differ in letter
\* case only, the one that is greater by code point first.
C7_Witness ==
  \E key \in DOMAIN rom_cache :
    \E i \in 1..(Len(rom_cache[key]) - 1) :
      /\ Lower(rom_cache[key][i].title) = Lower(rom_cache[key][i + 1].title)
      /\ ~StrLeq(rom_cache[key][i].title, rom_cache[key][i + 1].title)

\* C8: no entry of a built list, of any system, has a stem that is, lower-cased,
\* in ROM_HIDE_LIST.
C8_HideList ==
  \A key \in DOMAIN rom_cache :
    \A e \in Entries(rom_cache[key]) : StemKey(e.rom) \notin ROM_HIDE_LIST

\* C8, its case: lists were built for the standard system and for
\* "SNK Neo-Geo CD" from candidates whose stems are in ROM_HIDE_LIST only
\* when lower-cased, the one of the disc system in a sub-directory, and no
\* metadata index excluded them.
C8_Witness ==
  /\ \E key \in DOMAIN rom_cache :
       /\ key[2] = "Arcade"
       /\ DOMAIN MetaOf(key) = {}
       /\ \E rom \in Entries(CandidatesOf(key)) :
            StemKey(rom) \in ROM_HIDE_LIST /\ PathStem(rom) \notin ROM_HIDE_LIST
  /\ \E key \in DOMAIN rom_cache :
       /\ key[2] = "SNK Neo-Geo CD"
       /\ \E rom \in Entries(CandidatesOf(key)) :
            StemKey(rom) \in ROM_HIDE_LIST /\ PathStem(rom) \notin ROM_HIDE_LIST
                                           /\ PathName(rom) # rom

\* C9: every entry of a built list whose lower-cased stem is in the metadata
\* index has the title, year, manufacturer and clone flag of the index; every
\* other entry has the title of the title table for the stem, or else the
\* stem, an empty year and manufacturer and no clone flag.
C9_FieldResolution ==
  \A key \in DOMAIN rom_cache :
    \A e \in Entries(rom_cache[key]) :
      IF StemKey(e.rom) \in DOMAIN MetaOf(key)
      THEN /\ e.title = MetaOf(key)[StemKey(e.rom)].title
           /\ e.year = MetaOf(key)[StemKey(e.rom)].year
           /\ e.manuf = MetaOf(key)[StemKey(e.rom)].manuf
           /\ e.is_clone = MetaOf(key)[StemKey(e.rom)].is_clone
      ELSE /\ e.title = IF StemKey(e.rom) \in DOMAIN TitlesOf(key)
                        THEN TitlesOf(key)[StemKey(e.rom)]
                        ELSE PathStem(e.rom)
           /\ e.year = << >>
           /\ e.manuf = << >>
           /\ e.is_clone = FALSE

\* C9, its case: a built list has an entry whose stem is in the index and in
\* the title table, with different titles, and an entry whose stem is in the
\* title table only.
C9_Witness ==
  \E key \in DOMAIN rom_cache :
    /\ \E e \in Entries(rom_cache[key]) :
         /\ StemKey(e.rom) \in DOMAIN MetaOf(key) \cap DOMAIN TitlesOf(key)
         /\ MetaOf(key)[StemKey(e.rom)].title # TitlesOf(key)[StemKey(e.rom)]
    /\ \E e \in Entries(rom_cache[key]) :
         StemKey(e.rom) \in DOMAIN TitlesOf(key) \ DOMAIN MetaOf(key)


\* An entry passes the criteria of a call of filter_rom_list: it is not a
\* clone to hide, the year filter is empty or a substring of its year, the
\* manufacturer filter is empty or a substring of its manufacturer whatever
\* the letter case, and the search text is empty or a substring of its title
\* whatever the letter case.
PassesCriteria(x, f) ==
  /\ ~(f.hide_clones /\ x.is_clone)
  /\ f.year_filter = << >> \/ Contains(f.year_filter, x.year)
  /\ f.manuf_filter = << >> \/ Contains(Lower(f.manuf_filter), Lower(x.manuf))
  /\ f.search = << >> \/ Contains(Lower(f.search), Lower(x.title))

NoCriteria(f) ==
  /\ f.search = << >>
  /\ f.year_filter = << >>
  /\ f.manuf_filter = << >>
  /\ ~f.hide_clones

\* C11: filter_rom_list with all criteria empty returns its input list
\* unchanged, and a call of filter_rom_list leaves every list of the cache, the
\* one it was given included, as it was.
C11_FilterPure ==
  /\ [](\A i \in 1..Len(last.filter) :
          NoCriteria(last.filter[i]) => last.filter[i].ret = last.filter[i].rom_list)
  /\ [][\A i \in 1..Len(last'.filter) :
          /\ last'.calls = << >>
          /\ \E key \in DOMAIN rom_cache : rom_cache[key] = last'.filter[i].rom_list
          => /\ DOMAIN rom_cache' = DOMAIN rom_cache
             /\ \A key \in DOMAIN rom_cache : rom_cache'[key] = rom_cache[key]]_vars

\* filter_rom_list was called with all criteria empty on a cached list that
\* holds a clone and a parent, and the cache still holds that list.
C11_Witness ==
  \E i \in 1..Len(last.filter) :
    /\ last.calls = << >>
    /\ NoCriteria(last.filter[i])
    /\ \E j, k \in 1..Len(last.filter[i].rom_list) :
         last.filter[i].rom_list[j].is_clone /\ ~last.filter[i].rom_list[k].is_clone
    /\ \E key \in DOMAIN rom_cache : rom_cache[key] = last.filter[i].rom_list

(***************************************************************************)
(* The input controller.                                                   *)
(***************************************************************************)
\* The bindings and the debounce delay of a view.
ButtonsOf(view) ==
  IF view = "main" THEN MainButtons ELSE FavoritesButtons

DebounceOf(view) ==
  IF view = "main" THEN MainDebounceDelay ELSE joystick_config.button_debounce_delay

\* The step is a poll of the view that saw the press edge of the binding b:
\* the poll before saw the button up, this one sees it down.
PressEdge(view, b) ==
  /\ polled'.n # polled.n
  /\ polled'.view = view
  /\ ~polled.seen[view][b]
  /\ polled'.seen[view][b]

\* The step invokes the action of the binding b of the view.
Invokes(view, b) ==
  /\ polled'.n # polled.n
  /\ polled'.view = view
  /\ b \in Invocations(polled'.moves)

\* C12: in the main view and in the favorites dialog, a press edge of a bound
\* button at time t invokes the action if and only if t minus the time the
\* action was last invoked is at least the debounce delay.
C12_Debounce ==
  [][\A view \in { "main", "favorites" } :
       \A i \in 1..Len(ButtonsOf(view)) :
         PressEdge(view, ButtonsOf(view)[i])
         => (Invokes(view, ButtonsOf(view)[i])
               <=> polled'.now - polled.invoked[view][ButtonsOf(view)[i]]
                     >= DebounceOf(view))]_vars


\* The step is a poll of the main window.
MainPollStep ==
  polled'.n # polled.n /\ polled'.view = "main"

\* The step is a poll of the main window that sees the left or right input k
\* of the source src held for the first time after it was not held.
HeldEdge(src, k) ==
  /\ MainPollStep
  /\ ~polled.input.main[src][k].held
  /\ polled'.input.main[src][k].held

\* The last_*_held flag and the last_*_held_time of an input of the main
\* window.
HeldFlag(w, src, k) ==
  IF src = "key" THEN w.last_key_held[k] ELSE w.last_hat_held[k]

HeldTime(w, src, k) ==
  IF src = "key" THEN w.last_key_held_time[k] ELSE w.last_hat_held_time[k]

\* The poll of the step moved the selection hat_fastest_steps rows in the
\* direction k, clamped, for the input k of src.
MovesFastestSteps(src, k) ==
  \E i \in 1..Len(polled'.moves) :
    /\ polled'.moves[i].src = src
    /\ polled'.moves[i].key = k
    /\ polled'.moves[i].to = Target(k, polled'.moves[i].from, joystick_config.hat_fastest_steps,
                                    ListCount(roms))

\* C13: on the first poll that sees a left or right input held, hat or
\* arrow key, the selection moves hat_fastest_steps rows in that direction,
\* clamped, in that poll, the time of the last action of the input becomes
\* now and its held flag true.
C13_HeldEdge ==
  [][\A src \in { "hat", "key" }, k \in ArrowKeys :
       HeldEdge(src, k)
       => /\ MovesFastestSteps(src, k)
          /\ HeldFlag(win', src, k)
          /\ HeldTime(win', src, k) = now']_vars

\* The same for the hat alone.
HeldEdgeOfHat ==
  [][\A k \in ArrowKeys :
       HeldEdge("hat", k)
       => /\ MovesFastestSteps("hat", k)
          /\ HeldFlag(win', "hat", k)
          /\ HeldTime(win', "hat", k) = now']_vars

\* The step is a poll of the main window that sees the input k of src held as
\* the poll before did, and moves the selection for it: a repeat move.
RepeatMove(src, k) ==
  /\ MainPollStep
  /\ polled.input.main[src][k].held
  /\ polled'.input.main[src][k].held
  /\ \E i \in 1..Len(polled'.moves) : polled'.moves[i].src = src /\ polled'.moves[i].key = k

\* C14: while a left or right input, hat or arrow key, stays held, two
\* consecutive repeat moves of it are at least 50 ms apart, whatever
\* hat_fastest_delay and the times of the polls.
C14_RepeatFloor ==
  [][\A src \in { "hat", "key" }, k \in ArrowKeys :
       RepeatMove(src, k) /\ polled.input.main[src][k].repeated # 0
       => now' - polled.input.main[src][k].repeated >= 50]_vars

\* The same for the hat with a hat_fastest_delay of at most 200 ms.
RepeatFloorOfHat ==
  [][\A k \in ArrowKeys :
       /\ RepeatMove("hat", k)
       /\ polled.input.main.hat[k].repeated # 0
       /\ joystick_config.hat_fastest_delay <= 200
       => now' - polled.input.main.hat[k].repeated >= 50]_vars


\* The configuration and the list of the example: ten rows at a time, a
\* delay of 20 ms, fifty rows.
TenRowsEvery20 ==
  /\ joystick_config.hat_fastest_steps = 10
  /\ joystick_config.hat_fastest_delay = 20
  /\ ListCount(roms) = 50

\* The step is a poll of the main window that sees the hat held to the right
\* as the poll before did, with no repeat move since the first poll of the
\* hold.
HeldRightBeforeFirstRepeat ==
  /\ MainPollStep
  /\ polled.input.main.hat["right"].held
  /\ polled.input.main.hat["right"].repeated = 0
  /\ polled'.input.main.hat["right"].held

\* C15: with hat_fastest_steps 10 and hat_fastest_delay 20 ms on a list of
\* 50 rows, the first poll that sees the hat held to the right at row 0 moves
\* to row 10; then no poll at most 20 ms after it moves to the right, and the
\* first poll more than 20 ms after it moves ten rows, from row 10 to row 20.
C15_FirstRepeat ==
  [][TenRowsEvery20
     => /\ HeldEdge("hat", "right") /\ win.currentRow = 0 => win'.currentRow = 10
        /\ HeldRightBeforeFirstRepeat /\ now' - polled.input.main.hat["right"].since <= 20
           => ~RepeatMove("hat", "right") /\ win'.currentRow = win.currentRow
        /\ HeldRightBeforeFirstRepeat /\ now' - polled.input.main.hat["right"].since > 20
           => /\ RepeatMove("hat", "right")
              /\ MovesFastestSteps("hat", "right")
              /\ win.currentRow = 10 => win'.currentRow = 20]_vars

\* The hat was held to the right from row 0 on, over four polls 10 ms apart:
\* the polls 10 and 20 ms after the first one have not moved, and the poll
\* 30 ms after it has just moved from row 10 to row 20.
C15_Witness ==
  /\ TenRowsEvery20
  /\ polled.view = "main"
  /\ polled.input.main.hat["right"].held
  /\ polled.input.main.hat["right"].repeated = now
  /\ polled.input.main.hat["right"].since = now - 30
  /\ now = StartTime + 40
  /\ steps = 4
  /\ polled.moves = << [ src |-> "hat", key |-> "right", branch |-> "fastest",
                         from |-> 10, to |-> 20 ] >>
  /\ win.currentRow = 20

\* The time of the last action of an input in its history: the last repeat
\* move of the hold, or its first poll.
LastAction(input) ==
  IF input.repeated # 0 THEN input.repeated ELSE input.since

\* A poll of the view, which takes its list of size rows from w to wn, treats
\* the direction k of the hat as a single-step axis.
SingleStep(view, k, w, wn, size) ==
  /\ ~polled.input[view].hat[k].held /\ polled'.input[view].hat[k].held
     => /\ wn.currentRow = Target(k, w.currentRow, 1, size)
        /\ wn.last_hat_held_time[k] = now'
        /\ wn.last_hat_held[k]
  /\ polled.input[view].hat[k].held /\ polled'.input[view].hat[k].held
     => IF now' - LastAction(polled.input[view].hat[k]) >= joystick_config.hat_scroll_cooldown
        THEN /\ wn.currentRow = Target(k, w.currentRow, 1, size)
             /\ wn.last_hat_held_time[k] = now'
        ELSE /\ wn.currentRow = w.currentRow
             /\ wn.last_hat_held_time[k] = w.last_hat_held_time[k]
  /\ polled.input[view].hat[k].held /\ ~polled'.input[view].hat[k].held
     => ~wn.last_hat_held[k]

\* C16: in the main window and in the favorites dialog, the poll that first
\* sees the hat held up or down moves the selection one row in that
\* direction, clamped, and sets the time of the last action to now; while the
\* hat stays held a poll moves one further row if and only if now minus the
\* time of the last action is at least hat_scroll_cooldown, and then sets the
\* time to now; a poll that sees the hat released clears the held flag.
C16_SingleStepAxis ==
  [][/\ MainPollStep
        => \A k \in { "up", "down" } : SingleStep("main", k, win, win', ListCount(roms))
     /\ polled'.n # polled.n /\ polled'.view = "favorites" /\ favorites_dialog' # << >>
        => \A k \in { "up", "down" } :
             SingleStep("favorites", k, favorites_dialog[1], favorites_dialog'[1],
                        Len(favorites))]_vars

\* With a cooldown of 80 ms on a list of ten rows, the hat was held up from
\* row 5 on: the first poll moved to row 4, the poll 70 ms later did not move
\* and the poll 80 ms later has just moved to row 3.
C16_Witness ==
  /\ joystick_config.hat_scroll_cooldown = 80
  /\ ListCount(roms) = 10
  /\ polled.view = "main"
  /\ polled.input.main.hat["up"] = [ held |-> TRUE, since |-> now - 80, repeated |-> now ]
  /\ now = StartTime + 90
  /\ steps = 3
  /\ polled.moves = << [ src |-> "hat", key |-> "up", branch |-> "repeat",
                         from |-> 4, to |-> 3 ] >>
  /\ win.currentRow = 3

\* The bindings of MainWindow the step invokes the action of: in a poll of
\* the main window, or in the rest of one once the dialog it opened is closed.
MainInvocations ==
  IF polled'.view = "main" THEN Invocations(polled'.moves) ELSE Invocations(polled'.resumed)

\* C17: in each view a poll invokes the action of a binding only when it sees
\* the button down and the poll of that view that read the button before saw
\* it up: never on a later poll of the same hold, also when the debounce
\* suppressed the press edge, and never on the poll that sees the release.
C17_EdgeTriggered ==
  [][polled'.n # polled.n
     => /\ \A i \in 1..Len(MainButtons) :
             MainButtons[i] \in MainInvocations
             => ~polled.seen.main[MainButtons[i]] /\ polled'.seen.main[MainButtons[i]]
        /\ \A i \in 1..Len(FavoritesButtons) :
             Invokes("favorites", FavoritesButtons[i])
             => /\ ~polled.seen.favorites[FavoritesButtons[i]]
                /\ polled'.seen.favorites[FavoritesButtons[i]]]_vars

\* A poll of the main window has just seen the button of button_up still down
\* a debounce delay or more after its action was invoked, and invoked nothing.
C17_Witness ==
  /\ polled.view = "main"
  /\ polled.now = now
  /\ polled.seen.main["button_up"]
  /\ polled.invoked.main["button_up"] >= StartTime
  /\ now - polled.invoked.main["button_up"] >= MainDebounceDelay
  /\ polled.moves = << >>

\* The current row of a list of size rows is one of its rows.
InRange(row, size) ==
  row \in 0..(size - 1)

\* The moves of a poll launched something.
Launches(moves) ==
  \E i \in 1..Len(moves) : moves[i].branch = "launch"

\* C18: whenever the program runs, the current row of a non-empty list of
\* ROMs, and of a non-empty list of favorites while the dialog is open, is one
\* of the rows 0..size-1, also right after update_rom_list filled the list
\* and after every move; and a poll on an empty list leaves the current row
\* as it was and launches nothing.
C18_SelectionInRange ==
  /\ [](pc = "running"
        => /\ roms # << >> => InRange(win.currentRow, Len(roms))
           /\ favorites_dialog # << >> /\ favorites # << >>
              => InRange(favorites_dialog[1].currentRow, Len(favorites)))
  /\ [][/\ MainPollStep /\ roms = << >> /\ roms' = << >>
           => win'.currentRow = win.currentRow /\ ~Launches(polled'.moves)
        /\ polled'.n # polled.n /\ polled'.view = "favorites" /\ favorites = << >>
           /\ favorites_dialog' # << >>
           => /\ favorites_dialog'[1].currentRow = favorites_dialog[1].currentRow
              /\ ~Launches(polled'.moves)]_vars

\* What does hold of the rows: the current row is -1, for no current item, or
\* one of the rows of the list widget.
SelectionInRangeOrNone ==
  pc = "running"
  => /\ win.currentRow = -1 \/ InRange(win.currentRow, ListCount(roms))
     /\ favorites_dialog # << >>
        => \/ favorites_dialog[1].currentRow = -1
           \/ InRange(favorites_dialog[1].currentRow, Len(favorites))

\* The binding b has no button on the pad: there is no pad, or the index of
\* the configuration is negative or not below the number of its buttons.
NoButton(b) ==
  \/ joystick = << >>
  \/ joystick_config.buttons[b] < 0
  \/ joystick_config.buttons[b] >= joystick[1].numbuttons

\* The moves of a poll that came from the source src.
MovesOf(moves, src) ==
  { i \in 1..Len(moves) : moves[i].src = src }

\* A poll took the state w of a view to wn and made the moves given: the hat,
\* if the pad has none, and every binding of buttons with no button on the
\* pad did nothing and kept their state, and every other binding of buttons
\* was read.
Inert(view, w, wn, moves, buttons) ==
  /\ ~HasHat(joystick)
     => /\ MovesOf(moves, "hat") = {}
        /\ wn.last_hat_held = w.last_hat_held
        /\ wn.last_hat_held_time = w.last_hat_held_time
  /\ \A i \in 1..Len(buttons) :
       IF NoButton(buttons[i])
       THEN /\ buttons[i] \notin Invocations(moves)
            /\ buttons[i] \in DOMAIN wn.last_button_states
                 <=> buttons[i] \in DOMAIN w.last_button_states
            /\ buttons[i] \in DOMAIN wn.last_button_times
                 <=> buttons[i] \in DOMAIN w.last_button_times
            /\ DictGet(wn.last_button_states, buttons[i], FALSE)
                 = DictGet(w.last_button_states, buttons[i], FALSE)
            /\ DictGet(wn.last_button_times, buttons[i], 0)
                 = DictGet(w.last_button_times, buttons[i], 0)
       ELSE buttons[i] \in DOMAIN wn.last_button_states
            => wn.last_button_states[buttons[i]] = polled'.seen[view][buttons[i]]

\* C19: a poll raises nothing; when there is no pad, when the pad has no
\* hat, or when the index of a binding is negative or not below the number
\* of buttons of the pad, the hat or the binding invokes nothing and its
\* held flag, its held time, its last button state and its last button time
\* stay as they were, while the other bindings are read as on any pad: their
\* last state is what the poll saw, and in the main window a press edge a
\* debounce delay after the last invocation invokes the action.
C19_InertBindings ==
  [][/\ polled'.n # polled.n => ~polled'.raised
     /\ MainPollStep
        => /\ Inert("main", win, win', polled'.moves, MainButtons)
           /\ \A i \in 1..Len(MainButtons) :
                /\ PressEdge("main", MainButtons[i])
                /\ polled'.now - polled.invoked.main[MainButtons[i]] >= MainDebounceDelay
                => Invokes("main", MainButtons[i])
     /\ polled'.n # polled.n /\ polled'.view = "favorites" /\ favorites_dialog' # << >>
        => Inert("favorites", favorites_dialog[1], favorites_dialog'[1], polled'.moves,
                 FavoritesButtons)]_vars

\* On a pad with no hat and four buttons, with no button bound to select, a
\* poll of the main window with the hat held up and the buttons 0, 2 and 7
\* down has moved one row up for button_up and has done nothing else: no
\* move of the hat, nothing launched, no dialog opened.
C19_Witness ==
  /\ joystick = << [ numhats |-> 0, numbuttons |-> 4 ] >>
  /\ joystick_config.buttons["button_select"] = -1
  /\ polled.view = "main"
  /\ polled.now = now
  /\ polled.moves = << [ src |-> "button", key |-> "button_up", branch |-> "invoke",
                         from |-> 1, to |-> 0 ] >>
  /\ win.last_button_states = DictPut(DictPut(EmptyDict, "button_up", TRUE),
                                      "button_down", FALSE)
  /\ win.last_hat_held = NewHatHeld
  /\ favorites_dialog = << >>

\* The moves of a poll that took the branch given of scroll_list.
Branch(moves, branch) ==
  { i \in 1..Len(moves) : moves[i].branch = branch }

\* C20: with hat_fastest_delay at most 200 ms, no poll of the main window
\* moves the selection by the fallback branch of scroll_list, for the hat or
\* for the keys, whatever the inputs and the times between the polls.
C20_FallbackUnreachable ==
  [][MainPollStep /\ joystick_config.hat_fastest_delay <= 200
     => Branch(polled'.moves, "fallback") = {}]_vars

\* With hat_fastest_delay at 200 ms or less, a poll has seen the hat held to
\* the right more than 200 ms after the poll of the press and moved by the
\* fast branch.
C20_Witness ==
  /\ joystick_config.hat_fastest_delay <= 200
  /\ polled.view = "main"
  /\ polled.input.main.hat["right"] = [ held |-> TRUE, since |-> now - 260, repeated |-> now ]
  /\ Len(polled.moves) = 1
  /\ polled.moves[1].src = "hat"
  /\ polled.moves[1].branch = "fastest"

\* With hat_fastest_delay above 200 ms the fallback branch is taken.
FallbackReached ==
  /\ joystick_config.hat_fastest_delay > 200
  /\ polled.view = "main"
  /\ Branch(polled.moves, "fallback") # {}

\* The poll before the step was the poll of the main window whose
\* button_favorites opened the dialog, and the step is the first poll of the
\* dialog, which sees the button still down: as far as the polls can tell,
\* the press that opened the dialog is still held.
StillHeldAfterOpening ==
  /\ polled.view = "main"
  /\ \E i \in 1..Len(polled.moves) :
       polled.moves[i].key = "button_favorites" /\ polled.moves[i].branch = "open"
  /\ polled'.n # polled.n
  /\ polled'.view = "favorites"
  /\ polled'.seen.favorites["button_favorites"]

\* C21: the press of button_favorites that made the poll of the main window
\* open the dialog, while it is held, does not make the poll of the new
\* dialog close it: the dialog stays open.
C21_OnePressOneToggle ==
  [][StillHeldAfterOpening => favorites_dialog' # << >>]_vars

\* The moves of a poll for the input k of the source src.
MovesFor(moves, src, k) ==
  { i \in 1..Len(moves) : moves[i].src = src /\ moves[i].key = k }

\* C22: a poll of the main window moves the selection for the Left or the
\* Right key only while the user holds the key down, and for the hat to the
\* left or to the right only while the hat is held there; after the key was
\* released no poll moves for it, also when the release reached no
\* eventFilter of roms_list.
C22_MovesOnlyWhileHeld ==
  [][MainPollStep
     => \A k \in ArrowKeys :
          /\ MovesFor(polled'.moves, "key", k) # {} => polled.keys[k]
          /\ MovesFor(polled'.moves, "hat", k) # {} => polled'.input.main.hat[k].held]_vars

\* What does hold: a poll moves for a key only while last_key_held says so.
MovesOnlyWhileFlagged ==
  [][MainPollStep
     => \A k \in ArrowKeys : MovesFor(polled'.moves, "key", k) # {} => win.last_key_held[k]]_vars

\* The rows a move for the input k takes: one up and down, hat_fastest_steps
\* to the left and to the right.
RowsOf(k) ==
  IF k \in { "up", "down" } THEN 1 ELSE joystick_config.hat_fastest_steps

\* The row after the moves from the i-th on, each applied in turn, clamped,
\* to the row the one before left, on a list of size rows.
RECURSIVE InTurn(_, _, _, _)
InTurn(row, moves, i, size) ==
  IF i > Len(moves)
  THEN row
  ELSE InTurn(Target(moves[i].key, row, RowsOf(moves[i].key), size), moves, i + 1, size)

\* C23: when a poll of the main window makes several moves, for the two axes
\* of the hat or for the hat and a key, the current row after the poll is the
\* row before it with every move applied in turn, clamped: no move overwrites
\* one the poll has already made.
C23_MovesCompose ==
  [][MainPollStep
     => win'.currentRow = InTurn(win.currentRow, polled'.moves, 1, ListCount(roms))]_vars

\* What does hold: the moves compose at every poll where no held-edge move
\* to the left or to the right comes after another move.
MovesComposeButEdges ==
  [][MainPollStep
     /\ (\A i \in Branch(polled'.moves, "edge") : i = 1 \/ polled'.moves[i].key \in { "up", "down" })
     => win'.currentRow = InTurn(win.currentRow, polled'.moves, 1, ListCount(roms))]_vars

\* C24: the favorites never hold two entries with the same system, ROM,
\* title, year and manufacturer, whatever was added, removed, saved and
\* loaded before: add_to_favorites of a ROM that is a favorite already
\* leaves the favorites as they were.
C24_NoDuplicateFavorites ==
  \A i, j \in 1..Len(favorites) : i # j => favorites[i].items # favorites[j].items

=============================================================================
